---- MODULE Spec2Model ----
(***************************************************************************)
(* Request/notification bridge between the webview UI (VscodeApi, the      *)
(* Client Bridge) and the extension host (CodeAssistantPanel, the Host     *)
(* Command Dispatcher).                                                    *)
(*                                                                         *)
(* Spec        requests, the dispatcher and the responses; correlation ids *)
(*             are distinct (command_Date.now()_Math.random()).            *)
(* FairSpec    Spec with the event loops' scheduling: posted messages are  *)
(*             delivered, timers fire, awaited I/O and dialogs complete.   *)
(* SpecNoHost  the webview opened in a browser: no transport, no host.     *)
(* SpecSub     subscribe/unsubscribe and deleteFile requests, whose        *)
(*             handler posts refreshFileTree; a callback is not subscribed *)
(*             while it is registered and an unsubscribe function is       *)
(*             invoked at most once (a React effect cleanup).              *)
(* SpecCollide Spec where Date.now() and Math.random() may repeat, so two  *)
(*             requests for one command may carry the same id; a           *)
(*             subscription may be made before the first request.          *)
(* SpecDelete  deleteFile requests only, with the scheduling of FairSpec.  *)
(* SpecCreate  createFile requests and callbacks subscribed before the     *)
(*             first call.                                                 *)
(* SpecContent one updateFileContent of any short text (a text is its      *)
(*             UTF-16 code units, a file its UTF-8 bytes), then reads.     *)
(* SpecUI      the screens of the UI and the file operations of the        *)
(*             CodeAssistant screen, over the bridge or the repository API.*)
(* SpecInbound the 'message' listener given any envelope: a response for an *)
(*             issued request (error absent, empty or a text) or a         *)
(*             notification, with callbacks subscribed.                    *)
(* SpecRefresh the mounted UI in the webview of the extension: the mount   *)
(*             effect fetches and subscribes fetchVsCodeInitialData to     *)
(*             refreshFileTree, its cleanup unsubscribes.                  *)
(* SpecLate    deleteFile requests and callbacks that subscribe to         *)
(*             refreshFileTree at any moment, each subscription knowing    *)
(*             how many notifications the host had posted before it.       *)
(* SpecNotify  deleteFile and createFile requests with callbacks that      *)
(*             subscribe to refreshFileTree and unsubscribe at any moment. *)
(* SpecResub   callbacks subscribed again while registered, unsubscribe    *)
(*             functions called again.                                     *)
(* SpecTree    the file tree of the UI: deletions asked from the list, one *)
(*             getInitialData per refreshFileTree, findFiles as a search   *)
(*             followed by the resolution of its promise.                  *)
(* SpecPanel   render and dispose of CodeAssistantPanel.                   *)
(***************************************************************************)
EXTENDS Integers, Sequences, FiniteSets, TLC

\* ---------------------------------------------------------------- bounds
MaxReq == 2       \* calls to request() in Spec, FairSpec and SpecCollide
MaxSubReq == 1    \* calls to request() in SpecSub
MaxSubs == 2      \* calls to subscribe()
MaxLen == 2       \* code units of a text written in SpecContent
MaxTreeReq == 5   \* calls to request() in SpecTree
MaxPanels == 3    \* WebviewPanels created in SpecPanel
MaxReveals == 2   \* calls of reveal() counted for one panel

\* ------------------------------------------------------------ vocabulary
Commands == {"getInitialData", "getFileContent", "updateFileContent", "deleteFile", "createFile"}
UnknownCommand == "unknownCommand"
PathCommands == {"getFileContent", "updateFileContent", "deleteFile"}
Paths == {"a.ts", "b.ts"}
NoPath == ""

\* a text is the sequence of its UTF-16 code units, a file the sequence of its
\* bytes; Absent is no byte sequence
Absent == <<-1>>
NoContent == <<>>
OldContent == <<111, 108, 100>>
NewContent == <<110, 101, 119>>
BOM == 65279
Replacement == 65533

IsHighSurrogate(u) == u >= 55296 /\ u <= 56319
IsLowSurrogate(u) == u >= 56320 /\ u <= 57343

\* the UTF-8 bytes of a code point
Utf8(cp) ==
    IF cp < 128 THEN <<cp>>
    ELSE IF cp < 2048 THEN <<192 + (cp \div 64), 128 + (cp % 64)>>
    ELSE IF cp < 65536 THEN <<224 + (cp \div 4096), 128 + ((cp \div 64) % 64), 128 + (cp % 64)>>
    ELSE <<240 + (cp \div 262144), 128 + ((cp \div 4096) % 64), 128 + ((cp \div 64) % 64), 128 + (cp % 64)>>

\* the UTF-16 code units of a code point
Utf16(cp) ==
    IF cp < 65536 THEN <<cp>>
    ELSE <<55296 + ((cp - 65536) \div 1024), 56320 + ((cp - 65536) % 1024)>>

\* new TextEncoder().encode(text): a surrogate pair is one code point, a
\* surrogate without its partner is encoded as U+FFFD
RECURSIVE TextEncode(_)
TextEncode(text) ==
    IF text = <<>> THEN <<>>
    ELSE IF IsHighSurrogate(text[1]) /\ Len(text) >= 2 /\ IsLowSurrogate(text[2])
    THEN Utf8(65536 + (text[1] - 55296) * 1024 + (text[2] - 56320)) \o TextEncode(SubSeq(text, 3, Len(text)))
    ELSE IF IsHighSurrogate(text[1]) \/ IsLowSurrogate(text[1])
    THEN Utf8(Replacement) \o TextEncode(Tail(text))
    ELSE Utf8(text[1]) \o TextEncode(Tail(text))

RECURSIVE Utf8Decode(_)
Utf8Decode(bytes) ==
    IF bytes = <<>> THEN <<>>
    ELSE LET b == bytes[1]
             n == IF b < 128 THEN 1 ELSE IF b >= 240 THEN 4 ELSE IF b >= 224 THEN 3 ELSE IF b >= 192 THEN 2 ELSE 0
         IN IF n = 0 \/ Len(bytes) < n
            THEN <<Replacement>> \o Utf8Decode(Tail(bytes))
            ELSE LET cp == CASE n = 1 -> b
                             [] n = 2 -> (b - 192) * 64 + (bytes[2] - 128)
                             [] n = 3 -> (b - 224) * 4096 + (bytes[2] - 128) * 64 + (bytes[3] - 128)
                             [] OTHER -> (b - 240) * 262144 + (bytes[2] - 128) * 4096
                                         + (bytes[3] - 128) * 64 + (bytes[4] - 128)
                 IN Utf16(cp) \o Utf8Decode(SubSeq(bytes, n + 1, Len(bytes)))

\* new TextDecoder().decode(bytes): utf-8, ignoreBOM false, so a leading
\* U+FEFF is not part of the result
TextDecode(bytes) ==
    LET text == Utf8Decode(bytes)
    IN IF text /= <<>> /\ text[1] = BOM THEN Tail(text) ELSE text
SubCommands == {"refreshFileTree", "response"}
Callbacks == {"cbA", "cbB"}

\* JavaScript values that cross the channel
NoId == <<>>
Undefined == "undefined"
Null == [kind |-> "null"]
UndefinedPayload == [kind |-> "undefined"]
Truthy(s) == s /= Undefined /\ s /= ""

MockError == "VS Code API is not available in a standard browser environment."
ErrNoWorkspace == "No workspace is open."
ErrNoWorkspaceFolder == "No workspace folder is open. Please open a project to use the assistant."
ErrRead == "Failed to read file"
ErrWrite == "Failed to write file"
ErrDelete == "Failed to delete file"
ErrCreate == "Failed to create file"
ErrDeleteCancelled == "Deletion cancelled by user."
ErrCreateCancelled == "File creation cancelled by user."

VARIABLES
    attached,         \* VscodeApi.vscodeApi is defined (acquireVsCodeApi exists)
    pendingRequests,  \* VscodeApi.pendingRequests: id -> request whose continuation it holds
    subscribers,      \* VscodeApi.subscribers: command -> Set object
    setObjs,          \* the Set objects created by subscribe: object -> callbacks
    handles,          \* the unsubscribe closures returned by subscribe
    reqs,             \* the calls to request(), in call order
    outcome,          \* the promise of each call
    timers,           \* setTimeout callbacks not yet run
    toHost,           \* messages posted by the webview, not yet received by the host
    toUI,             \* messages posted by the host, not yet received by the webview
    workspaceOpen,    \* vscode.workspace.workspaceFolders?.[0] is defined
    files,            \* the workspace's files: path -> content
    handlers,         \* the host's async message handlers, one per received Request
    last,             \* what the latest run of handleMessage did
    currentView,      \* AppContext.currentView: the screen the UI shows
    apiCalls,         \* the repository-API (services/api) operations the UI has called
    fileTree,         \* AppContext.fileTree: the paths the UI lists
    currentPanel,     \* CodeAssistantPanel.currentPanel: a panel, or 0 for undefined
    panels            \* the WebviewPanels created by render, in creation order

vars == <<attached, pendingRequests, subscribers, setObjs, handles, reqs, outcome,
          timers, toHost, toUI, workspaceOpen, files, handlers, last, currentView, apiCalls,
          fileTree, currentPanel, panels>>

envVars == <<attached, currentView, apiCalls, fileTree, currentPanel, panels>>
clientVars == <<pendingRequests, outcome, last>>
subVars == <<subscribers, setObjs, handles>>
hostVars == <<workspaceOpen, files, handlers>>

\* the requests: MaxReq started by the user or the mount effect, and the one the
\* refreshFileTree callback may start after them
ReqIds == 1..(MaxReq + 1)

\* ------------------------------------------------------------------ Init
NoHandler == [pc |-> "none", arg |-> NoPath, io |-> "none", sent |-> <<>>]
NoOutcome == [state |-> "unissued", value |-> Null, error |-> Undefined, n |-> 0]
NoLast == [kind |-> "none", id |-> NoId, req |-> 0, command |-> "", invoked |-> <<>>, payload |-> UndefinedPayload, threw |-> {}, handlerThrew |-> FALSE]

Init ==
    /\ attached \in BOOLEAN
    /\ pendingRequests = <<>>
    /\ subscribers = <<>>
    /\ setObjs = <<>>
    /\ handles = <<>>
    /\ reqs = <<>>
    /\ outcome = [r \in ReqIds |-> NoOutcome]
    /\ timers = {}
    /\ toHost = <<>>
    /\ toUI = <<>>
    /\ workspaceOpen \in (IF attached THEN BOOLEAN ELSE {FALSE})
    /\ files \in (IF workspaceOpen
                  THEN {[p \in Paths |-> IF p = "a.ts" THEN OldContent ELSE c] : c \in {OldContent, Absent}}
                  ELSE {[p \in Paths |-> Absent]})
    /\ handlers = [r \in ReqIds |-> NoHandler]
    /\ last = NoLast
    /\ currentView = "LOGIN"
    /\ apiCalls = {}
    /\ fileTree = {}
    /\ currentPanel = 0
    /\ panels = <<>>

\* ------------------------------------------------ Map and Promise helpers
\* Map.set that keeps the value of a key already present
MapSetKeepsFirst(f, k, v) == IF k \in DOMAIN f THEN f ELSE [x \in (DOMAIN f) \cup {k} |-> IF x = k THEN v ELSE f[x]]

MapSet(f, k, v) == [x \in (DOMAIN f) \cup {k} |-> IF x = k THEN v ELSE f[x]]
MapDelete(f, k) == [x \in (DOMAIN f) \ {k} |-> f[x]]

\* pending.resolve(payload): only the first settlement of a promise takes effect
Resolve(out, r, payload) ==
    [out EXCEPT ![r] = IF @.state = "pending"
                       THEN [state |-> "resolved", value |-> payload, error |-> Undefined, n |-> @.n + 1]
                       ELSE [@ EXCEPT !.n = @ + 1]]

\* pending.reject(new Error(error))
Reject(out, r, error) ==
    [out EXCEPT ![r] = IF @.state = "pending"
                       THEN [state |-> "rejected", value |-> Null, error |-> error, n |-> @.n + 1]
                       ELSE [@ EXCEPT !.n = @ + 1]]

\* ------------------------------------------- VscodeApi.handleMessage
\* the entry is not deleted after the settlement
KeepEntryResponse(pend, out, m) ==
    IF m.requestId \in DOMAIN pend
    THEN [pendingRequests |-> pend,
          outcome |-> IF Truthy(m.error) THEN Reject(out, pend[m.requestId], m.error)
                      ELSE Resolve(out, pend[m.requestId], m.payload),
          last |-> [NoLast EXCEPT !.kind = "settled", !.id = m.requestId, !.req = pend[m.requestId]]]
    ELSE [pendingRequests |-> pend, outcome |-> out,
          last |-> [NoLast EXCEPT !.kind = "dropped", !.id = m.requestId]]

\* a response settles the oldest pending request, whatever id it carries
OldestEntryResponse(pend, out, m) ==
    IF m.requestId \in DOMAIN pend
    THEN LET id == CHOOSE i \in DOMAIN pend : \A j \in DOMAIN pend : pend[i] <= pend[j]
         IN [pendingRequests |-> MapDelete(pend, id),
             outcome |-> IF Truthy(m.error) THEN Reject(out, pend[id], m.error)
                         ELSE Resolve(out, pend[id], m.payload),
             last |-> [NoLast EXCEPT !.kind = "settled", !.id = id, !.req = pend[id]]]
    ELSE [pendingRequests |-> pend, outcome |-> out,
          last |-> [NoLast EXCEPT !.kind = "dropped", !.id = m.requestId]]

\* no `if (pending)`: pending.resolve on undefined throws a TypeError
UnguardedResponse(pend, out, m) ==
    IF m.requestId \in DOMAIN pend
    THEN [pendingRequests |-> MapDelete(pend, m.requestId),
          outcome |-> IF Truthy(m.error) THEN Reject(out, pend[m.requestId], m.error)
                      ELSE Resolve(out, pend[m.requestId], m.payload),
          last |-> [NoLast EXCEPT !.kind = "settled", !.id = m.requestId, !.req = pend[m.requestId]]]
    ELSE [pendingRequests |-> pend, outcome |-> out,
          last |-> [NoLast EXCEPT !.kind = "dropped", !.id = m.requestId, !.handlerThrew = TRUE]]

\* the entry is deleted in the resolve branch only
KeepEntryOnReject(pend, out, m) ==
    IF m.requestId \in DOMAIN pend
    THEN [pendingRequests |-> IF Truthy(m.error) THEN pend ELSE MapDelete(pend, m.requestId),
          outcome |-> IF Truthy(m.error) THEN Reject(out, pend[m.requestId], m.error)
                      ELSE Resolve(out, pend[m.requestId], m.payload),
          last |-> [NoLast EXCEPT !.kind = "settled", !.id = m.requestId, !.req = pend[m.requestId]]]
    ELSE [pendingRequests |-> pend, outcome |-> out,
          last |-> [NoLast EXCEPT !.kind = "dropped", !.id = m.requestId]]

\* the requestId branch: look up, settle, delete
HandleResponse(pend, out, m) ==
    IF m.requestId \in DOMAIN pend
    THEN [pendingRequests |-> MapDelete(pend, m.requestId),
          outcome |-> IF Truthy(m.error) THEN Reject(out, pend[m.requestId], m.error)
                      ELSE Resolve(out, pend[m.requestId], m.payload),
          last |-> [NoLast EXCEPT !.kind = "settled", !.id = m.requestId, !.req = pend[m.requestId]]]
    ELSE [pendingRequests |-> pend, outcome |-> out,
          last |-> [NoLast EXCEPT !.kind = "dropped", !.id = m.requestId]]

\* no try/catch around callback(payload): the first throw ends the forEach
UncaughtNotification(subs, sets, m, throwing) ==
    IF m.command \in DOMAIN subs
    THEN LET cbs == sets[subs[m.command]]
             first == CHOOSE c \in cbs : (cbs \cap throwing /= {}) => c \in throwing
         IN IF cbs \cap throwing = {}
            THEN [NoLast EXCEPT !.kind = "notified", !.command = m.command,
                                !.invoked = [c \in cbs |-> 1], !.payload = m.payload]
            ELSE [NoLast EXCEPT !.kind = "notified", !.command = m.command,
                                !.invoked = [c \in {first} |-> 1], !.payload = m.payload,
                                !.threw = {first}, !.handlerThrew = TRUE]
    ELSE [NoLast EXCEPT !.kind = "notified", !.command = m.command]

\* no `if (commandSubscribers)`: forEach on undefined throws a TypeError
UnguardedNotification(subs, sets, m, throwing) ==
    IF m.command \in DOMAIN subs
    THEN LET cbs == sets[subs[m.command]]
         IN [NoLast EXCEPT !.kind = "notified", !.command = m.command,
                           !.invoked = [c \in cbs |-> 1], !.payload = m.payload,
                           !.threw = cbs \cap throwing]
    ELSE [NoLast EXCEPT !.kind = "notified", !.command = m.command, !.handlerThrew = TRUE]

\* the notification branch: every callback of the command's Set is called with
\* the payload inside its own try/catch; throwing = the callbacks that throw
HandleNotification(subs, sets, m, throwing) ==
    IF m.command \in DOMAIN subs
    THEN LET cbs == sets[subs[m.command]]
         IN [NoLast EXCEPT !.kind = "notified", !.command = m.command,
                           !.invoked = [c \in cbs |-> 1], !.payload = m.payload,
                           !.threw = cbs \cap throwing]
    ELSE [NoLast EXCEPT !.kind = "notified", !.command = m.command]

\* no else: after the requestId branch the command's subscribers are invoked too
NotifyAfterResponse(m, throwing) ==
    IF m.requestId /= NoId
    THEN LET res == HandleResponse(pendingRequests, outcome, m)
             note == HandleNotification(subscribers, setObjs, m, throwing)
         IN /\ pendingRequests' = res.pendingRequests
            /\ outcome' = res.outcome
            /\ last' = [res.last EXCEPT !.invoked = note.invoked, !.threw = note.threw]
    ELSE /\ last' = HandleNotification(subscribers, setObjs, m, throwing)
         /\ UNCHANGED <<pendingRequests, outcome>>

HandleMessage(m, throwing) ==
    IF m.requestId /= NoId
    THEN LET res == HandleResponse(pendingRequests, outcome, m)
         IN /\ pendingRequests' = res.pendingRequests
            /\ outcome' = res.outcome
            /\ last' = res.last
    ELSE /\ last' = HandleNotification(subscribers, setObjs, m, throwing)
         /\ UNCHANGED <<pendingRequests, outcome>>

\* ------------------------------------------------- VscodeApi.request
RequestPayloads(command) ==
    IF command \in PathCommands
    THEN {[path |-> p, newContent |-> IF command = "updateFileContent" THEN NewContent ELSE NoContent] : p \in Paths}
    ELSE {[path |-> NoPath, newContent |-> NoContent]}

\* `${command}_${Date.now()}_${Math.random()}`
RequestId(command, token) == <<command, token>>

\* no setTimeout in the branch without a transport
RequestWithoutTimer(command, payload, token) ==
    LET r == Len(reqs) + 1
        requestId == RequestId(command, token)
    IN /\ Len(reqs) < MaxReq
       /\ reqs' = Append(reqs, [command |-> command, payload |-> payload, id |-> requestId])
       /\ outcome' = [outcome EXCEPT ![r] = [NoOutcome EXCEPT !.state = "pending"]]
       /\ pendingRequests' = MapSet(pendingRequests, requestId, r)
       /\ IF attached
          THEN toHost' = Append(toHost, [command |-> command, payload |-> payload,
                                         requestId |-> requestId, src |-> r])
          ELSE UNCHANGED toHost
       /\ UNCHANGED <<envVars, subVars, timers, toUI, hostVars, last>>

\* every request arms the timer, with a transport attached or not
RequestWithTimeout(command, payload, token) ==
    LET r == Len(reqs) + 1
        requestId == RequestId(command, token)
    IN /\ Len(reqs) < MaxReq
       /\ reqs' = Append(reqs, [command |-> command, payload |-> payload, id |-> requestId])
       /\ outcome' = [outcome EXCEPT ![r] = [NoOutcome EXCEPT !.state = "pending"]]
       /\ pendingRequests' = MapSet(pendingRequests, requestId, r)
       /\ timers' = timers \cup {r}
       /\ IF attached
          THEN toHost' = Append(toHost, [command |-> command, payload |-> payload,
                                         requestId |-> requestId, src |-> r])
          ELSE UNCHANGED toHost
       /\ UNCHANGED <<envVars, subVars, toUI, hostVars, last>>

\* no pendingRequests.set: the continuation is held by nothing
RequestWithoutEntry(command, payload, token) ==
    LET r == Len(reqs) + 1
        requestId == RequestId(command, token)
    IN /\ Len(reqs) < MaxReq
       /\ reqs' = Append(reqs, [command |-> command, payload |-> payload, id |-> requestId])
       /\ outcome' = [outcome EXCEPT ![r] = [NoOutcome EXCEPT !.state = "pending"]]
       /\ UNCHANGED pendingRequests
       /\ IF attached
          THEN /\ toHost' = Append(toHost, [command |-> command, payload |-> payload,
                                            requestId |-> requestId, src |-> r])
               /\ UNCHANGED timers
          ELSE /\ timers' = timers \cup {r}
               /\ UNCHANGED toHost
       /\ UNCHANGED <<envVars, subVars, toUI, hostVars, last>>

DoRequest(command, payload, token) ==
    LET r == Len(reqs) + 1
        requestId == RequestId(command, token)
    IN /\ Len(reqs) < MaxReq
       /\ reqs' = Append(reqs, [command |-> command, payload |-> payload, id |-> requestId])
       /\ outcome' = [outcome EXCEPT ![r] = [NoOutcome EXCEPT !.state = "pending"]]
       /\ pendingRequests' = MapSet(pendingRequests, requestId, r)
       /\ IF attached
          THEN /\ toHost' = Append(toHost, [command |-> command, payload |-> payload,
                                            requestId |-> requestId, src |-> r])
               /\ UNCHANGED timers
          ELSE /\ timers' = timers \cup {r}
               /\ UNCHANGED toHost
       /\ UNCHANGED <<envVars, subVars, toUI, hostVars, last>>

\* the token of a new request differs from every token generated before
Request(command, payload) == DoRequest(command, payload, Len(reqs) + 1)

\* Math.random() and Date.now() return what they returned for an earlier call
RequestCollide(command, payload) ==
    \E r \in 1..Len(reqs) :
        /\ reqs[r].command = command
        /\ DoRequest(command, payload, reqs[r].id[2])

\* the setTimeout callback of request (no transport attached)
TimerFire(r) ==
    /\ r \in timers
    /\ timers' = timers \ {r}
    /\ HandleMessage([command |-> "response", requestId |-> reqs[r].id,
                      payload |-> Null, error |-> MockError], {})
    /\ UNCHANGED <<envVars, subVars, reqs, toHost, toUI, hostVars>>

\* the window 'message' listener registered by the constructor
UIReceive(throwing) ==
    /\ attached
    /\ toUI /= <<>>
    /\ toUI' = Tail(toUI)
    /\ HandleMessage(Head(toUI), throwing)
    /\ UNCHANGED <<envVars, subVars, reqs, timers, toHost, hostVars>>

\* ----------------------------------------------- VscodeApi.subscribe
Registered(command) ==
    IF command \in DOMAIN subscribers THEN setObjs[subscribers[command]] ELSE {}

\* subscribe makes a new Set for the command on every call
SubscribeReplacesSet(command, callback) ==
    LET obj == Len(setObjs) + 1
    IN /\ Len(handles) < MaxSubs
       /\ subscribers' = MapSet(subscribers, command, obj)
       /\ setObjs' = Append(setObjs, {callback})
       /\ handles' = Append(handles, [command |-> command, callback |-> callback,
                                      set |-> obj, calls |-> 0])
       /\ UNCHANGED <<envVars, clientVars, reqs, timers, toHost, toUI, hostVars>>

DoSubscribe(command, callback) ==
    LET fresh == command \notin DOMAIN subscribers
        obj == IF fresh THEN Len(setObjs) + 1 ELSE subscribers[command]
        sets1 == IF fresh THEN Append(setObjs, {}) ELSE setObjs
    IN /\ Len(handles) < MaxSubs
       /\ subscribers' = MapSet(subscribers, command, obj)
       /\ setObjs' = [sets1 EXCEPT ![obj] = @ \cup {callback}]
       /\ handles' = Append(handles, [command |-> command, callback |-> callback,
                                      set |-> obj, calls |-> 0])
       /\ UNCHANGED <<envVars, clientVars, reqs, timers, toHost, toUI, hostVars>>

Subscribe(command, callback) ==
    /\ callback \notin Registered(command)
    /\ DoSubscribe(command, callback)

SubscribeAgain(command, callback) ==
    /\ callback \in Registered(command)
    /\ DoSubscribe(command, callback)

\* the closure forgets commandSubscribers.delete(callback)
UnsubscribeKeepsCallback(subs, sets, h) ==
    [setObjs |-> sets,
     subscribers |-> IF sets[h.set] = {} THEN MapDelete(subs, h.command) ELSE subs]

\* the closure forgets this.subscribers.delete(command)
UnsubscribeKeepsEmptySet(subs, sets, h) ==
    [setObjs |-> [sets EXCEPT ![h.set] = @ \ {h.callback}], subscribers |-> subs]

\* the closure returned by subscribe
UnsubscribeResult(subs, sets, h) ==
    LET sets1 == [sets EXCEPT ![h.set] = @ \ {h.callback}]
    IN [setObjs |-> sets1,
        subscribers |-> IF sets1[h.set] = {} THEN MapDelete(subs, h.command) ELSE subs]

DoUnsubscribe(i) ==
    LET res == UnsubscribeResult(subscribers, setObjs, handles[i])
    IN /\ subscribers' = res.subscribers
       /\ setObjs' = res.setObjs
       /\ handles' = [handles EXCEPT ![i].calls = 1]
       /\ UNCHANGED <<envVars, clientVars, reqs, timers, toHost, toUI, hostVars>>

Unsubscribe(i) ==
    /\ i \in 1..Len(handles)
    /\ handles[i].calls = 0
    /\ DoUnsubscribe(i)

UnsubscribeAgain(i) ==
    /\ i \in 1..Len(handles)
    /\ handles[i].calls = 1
    /\ DoUnsubscribe(i)

\* ------------------------------------- CodeAssistantPanel: the dispatcher
Impls == {"fs", "edit"}    \* workspace.fs calls or WorkspaceEdit calls
IoResults == {"ok", "throws", "refused"}

\* respond(data, error)
Response(requestId, data, error) ==
    [command |-> "response", requestId |-> requestId, payload |-> data, error |-> error]

\* webview.postMessage({ command: 'refreshFileTree' })
RefreshFileTree ==
    [command |-> "refreshFileTree", requestId |-> NoId, payload |-> UndefinedPayload, error |-> Undefined]

\* handler r goes to pc and posts envs to the webview
HostStep(r, pc, arg, io, envs) ==
    /\ handlers' = [handlers EXCEPT ![r] = [pc |-> pc, arg |-> arg, io |-> io, sent |-> @.sent \o envs]]
    /\ toUI' = toUI \o envs

\* the switch has a default case that answers with an error
DispatchWithDefault(m, ws) ==
    IF ~ws /\ m.command /= "getInitialData"
    THEN [pc |-> "done", envs |-> <<Response(m.requestId, Null, ErrNoWorkspace)>>]
    ELSE CASE m.command = "getInitialData" ->
                IF ~ws
                THEN [pc |-> "done", envs |-> <<Response(m.requestId, Null, ErrNoWorkspaceFolder)>>]
                ELSE [pc |-> "findFiles", envs |-> <<>>]
           [] m.command = "getFileContent" -> [pc |-> "readFile", envs |-> <<>>]
           [] m.command = "updateFileContent" -> [pc |-> "writeFile", envs |-> <<>>]
           [] m.command = "deleteFile" -> [pc |-> "confirm", envs |-> <<>>]
           [] m.command = "createFile" -> [pc |-> "prompt", envs |-> <<>>]
           [] OTHER -> [pc |-> "done", envs |-> <<Response(m.requestId, Null, "Unknown command")>>]

\* no `if (!workspaceFolder && command !== 'getInitialData')` before the switch
DispatchWithoutGuard(m, ws) ==
    CASE m.command = "getInitialData" ->
            IF ~ws
            THEN [pc |-> "done", envs |-> <<Response(m.requestId, Null, ErrNoWorkspaceFolder)>>]
            ELSE [pc |-> "findFiles", envs |-> <<>>]
      [] m.command = "getFileContent" -> [pc |-> "readFile", envs |-> <<>>]
      [] m.command = "updateFileContent" -> [pc |-> "writeFile", envs |-> <<>>]
      [] m.command = "deleteFile" -> [pc |-> "confirm", envs |-> <<>>]
      [] m.command = "createFile" -> [pc |-> "prompt", envs |-> <<>>]
      [] OTHER -> [pc |-> "ignored", envs |-> <<>>]

\* a Request envelope arrives: the handler runs up to its first await
Dispatch(m, ws) ==
    IF ~ws /\ m.command /= "getInitialData"
    THEN [pc |-> "done", envs |-> <<Response(m.requestId, Null, ErrNoWorkspace)>>]
    ELSE CASE m.command = "getInitialData" ->
                IF ~ws
                THEN [pc |-> "done", envs |-> <<Response(m.requestId, Null, ErrNoWorkspaceFolder)>>]
                ELSE [pc |-> "findFiles", envs |-> <<>>]
           [] m.command = "getFileContent" -> [pc |-> "readFile", envs |-> <<>>]
           [] m.command = "updateFileContent" -> [pc |-> "writeFile", envs |-> <<>>]
           [] m.command = "deleteFile" -> [pc |-> "confirm", envs |-> <<>>]
           [] m.command = "createFile" -> [pc |-> "prompt", envs |-> <<>>]
           [] OTHER -> [pc |-> "ignored", envs |-> <<>>]

\* the dispatcher takes the next message only when no handler is suspended
HostReceiveSerial ==
    /\ toHost /= <<>>
    /\ \A r \in ReqIds : handlers[r].pc \in {"none", "done", "ignored"}
    /\ LET m == Head(toHost)
           d == Dispatch(m, workspaceOpen)
       IN HostStep(m.src, d.pc, NoPath, "none", d.envs)
    /\ toHost' = Tail(toHost)
    /\ UNCHANGED <<envVars, clientVars, subVars, reqs, timers, workspaceOpen, files>>

HostReceive ==
    /\ toHost /= <<>>
    /\ LET m == Head(toHost)
           d == Dispatch(m, workspaceOpen)
       IN HostStep(m.src, d.pc, NoPath, "none", d.envs)
    /\ toHost' = Tail(toHost)
    /\ UNCHANGED <<envVars, clientVars, subVars, reqs, timers, workspaceOpen, files>>

FileTree(fs) == {p \in Paths : fs[p] /= Absent}

\* getInitialData: findFiles has ended; the case has no try/catch, so when the
\* awaited call rejects the handler ends without a respond
FindFilesDone(r, res) ==
    /\ handlers[r].pc = "findFiles"
    /\ HostStep(r, "done", NoPath, res,
                IF res = "ok"
                THEN <<Response(reqs[r].id, [kind |-> "initialData", fileTree |-> FileTree(files)], Undefined)>>
                ELSE <<>>)
    /\ UNCHANGED <<envVars, clientVars, subVars, reqs, timers, toHost, workspaceOpen, files>>

\* the read of a missing file is answered with empty content
ReadFileReplyEmpty(requestId, path, fs, readable) ==
    IF fs[path] /= Absent /\ readable
    THEN Response(requestId, [kind |-> "fileContent", content |-> TextDecode(fs[path])], Undefined)
    ELSE Response(requestId, [kind |-> "fileContent", content |-> <<>>], Undefined)

\* getFileContent: what is answered once the read has ended
ReadFileReply(requestId, path, fs, readable) ==
    IF fs[path] /= Absent /\ readable
    THEN Response(requestId, [kind |-> "fileContent", content |-> TextDecode(fs[path])], Undefined)
    ELSE Response(requestId, Null, ErrRead)

ReadFileDone(r, readable) ==
    /\ handlers[r].pc = "readFile"
    /\ HostStep(r, "done", NoPath,
                IF files[reqs[r].payload.path] /= Absent /\ readable THEN "ok" ELSE "throws",
                <<ReadFileReply(reqs[r].id, reqs[r].payload.path, files, readable)>>)
    /\ UNCHANGED <<envVars, clientVars, subVars, reqs, timers, toHost, workspaceOpen, files>>

\* can the awaited file operation end this way
IoPossible(impl, op, exists, res) ==
    CASE res = "ok" -> CASE op = "delete" -> exists
                         [] op = "write" -> impl = "fs" \/ exists
                         [] OTHER -> TRUE
      [] res = "refused" -> impl = "edit"
      [] OTHER -> TRUE

\* updateFileContent: writeFile, or applyEdit and save, has ended
WriteFileDone(r, impl, res) ==
    LET path == reqs[r].payload.path
    IN /\ handlers[r].pc = "writeFile"
       /\ IoPossible(impl, "write", files[path] /= Absent, res)
       /\ files' = IF res = "ok" THEN [files EXCEPT ![path] = TextEncode(reqs[r].payload.newContent)] ELSE files
       /\ HostStep(r, "done", NoPath, res,
                   <<CASE res = "ok" -> Response(reqs[r].id, [kind |-> "newSha"], Undefined)
                       [] res = "refused" -> Response(reqs[r].id, Null, "Failed to apply edit")
                       [] OTHER -> Response(reqs[r].id, Null, ErrWrite)>>)
       /\ UNCHANGED <<envVars, clientVars, subVars, reqs, timers, toHost, workspaceOpen>>

\* the answer of the dialog is not looked at
ConfirmationIgnored(requestId, confirmation) ==
    [pc |-> "delete", envs |-> <<>>]

\* deleteFile: the user has answered showWarningMessage
ConfirmationStep(requestId, confirmation) ==
    IF confirmation = "Delete"
    THEN [pc |-> "delete", envs |-> <<>>]
    ELSE [pc |-> "done", envs |-> <<Response(requestId, Null, ErrDeleteCancelled)>>]

ConfirmAnswer(r, confirmation) ==
    /\ handlers[r].pc = "confirm"
    /\ LET c == ConfirmationStep(reqs[r].id, confirmation)
       IN HostStep(r, c.pc, confirmation, "none", c.envs)
    /\ UNCHANGED <<envVars, clientVars, subVars, reqs, timers, toHost, workspaceOpen, files>>

\* a successful deletion answers without posting refreshFileTree
DeleteDoneWithoutRefresh(r, impl, res) ==
    LET path == reqs[r].payload.path
    IN /\ handlers[r].pc = "delete"
       /\ IoPossible(impl, "delete", files[path] /= Absent, res)
       /\ files' = IF res = "ok" THEN [files EXCEPT ![path] = Absent] ELSE files
       /\ HostStep(r, "done", handlers[r].arg, res,
                   CASE res = "ok" -> <<Response(reqs[r].id, [kind |-> "success"], Undefined)>>
                     [] res = "refused" -> <<Response(reqs[r].id, Null, "Failed to apply delete operation.")>>
                     [] OTHER -> <<Response(reqs[r].id, Null, ErrDelete)>>)
       /\ UNCHANGED <<envVars, clientVars, subVars, reqs, timers, toHost, workspaceOpen>>

\* a successful deletion posts refreshFileTree and forgets respond
DeleteDoneWithoutResponse(r, impl, res) ==
    LET path == reqs[r].payload.path
    IN /\ handlers[r].pc = "delete"
       /\ IoPossible(impl, "delete", files[path] /= Absent, res)
       /\ files' = IF res = "ok" THEN [files EXCEPT ![path] = Absent] ELSE files
       /\ HostStep(r, "done", handlers[r].arg, res,
                   CASE res = "ok" -> <<RefreshFileTree>>
                     [] res = "refused" -> <<Response(reqs[r].id, Null, "Failed to apply delete operation.")>>
                     [] OTHER -> <<Response(reqs[r].id, Null, ErrDelete)>>)
       /\ UNCHANGED <<envVars, clientVars, subVars, reqs, timers, toHost, workspaceOpen>>

\* a successful deletion posts refreshFileTree again as a retry copy
DeleteDoneRepeatsRefresh(r, impl, res) ==
    LET path == reqs[r].payload.path
    IN /\ handlers[r].pc = "delete"
       /\ IoPossible(impl, "delete", files[path] /= Absent, res)
       /\ files' = IF res = "ok" THEN [files EXCEPT ![path] = Absent] ELSE files
       /\ HostStep(r, "done", handlers[r].arg, res,
                   CASE res = "ok" -> <<RefreshFileTree, RefreshFileTree,
                                        Response(reqs[r].id, [kind |-> "success"], Undefined)>>
                     [] res = "refused" -> <<Response(reqs[r].id, Null, "Failed to apply delete operation.")>>
                     [] OTHER -> <<Response(reqs[r].id, Null, ErrDelete)>>)
       /\ UNCHANGED <<envVars, clientVars, subVars, reqs, timers, toHost, workspaceOpen>>

\* deleteFile: fs.delete, or applyEdit, has ended
DeleteDone(r, impl, res) ==
    LET path == reqs[r].payload.path
    IN /\ handlers[r].pc = "delete"
       /\ IoPossible(impl, "delete", files[path] /= Absent, res)
       /\ files' = IF res = "ok" THEN [files EXCEPT ![path] = Absent] ELSE files
       /\ HostStep(r, "done", handlers[r].arg, res,
                   CASE res = "ok" -> <<RefreshFileTree, Response(reqs[r].id, [kind |-> "success"], Undefined)>>
                     [] res = "refused" -> <<Response(reqs[r].id, Null, "Failed to apply delete operation.")>>
                     [] OTHER -> <<Response(reqs[r].id, Null, ErrDelete)>>)
       /\ UNCHANGED <<envVars, clientVars, subVars, reqs, timers, toHost, workspaceOpen>>

\* the cancel branch calls respond without its error argument
PromptStepCancelResolves(requestId, newFilePath) ==
    IF Truthy(newFilePath)
    THEN [pc |-> "create", envs |-> <<>>]
    ELSE [pc |-> "done", envs |-> <<Response(requestId, Null, Undefined)>>]

\* createFile: the user has answered showInputBox
PromptStep(requestId, newFilePath) ==
    IF Truthy(newFilePath)
    THEN [pc |-> "create", envs |-> <<>>]
    ELSE [pc |-> "done", envs |-> <<Response(requestId, Null, ErrCreateCancelled)>>]

PromptAnswer(r, newFilePath) ==
    /\ handlers[r].pc = "prompt"
    /\ LET c == PromptStep(reqs[r].id, newFilePath)
       IN HostStep(r, c.pc, newFilePath, "none", c.envs)
    /\ UNCHANGED <<envVars, clientVars, subVars, reqs, timers, toHost, workspaceOpen, files>>

\* a successful creation answers without posting refreshFileTree
CreateDoneWithoutRefresh(r, impl, res) ==
    LET path == handlers[r].arg
    IN /\ handlers[r].pc = "create"
       /\ IoPossible(impl, "create", files[path] /= Absent, res)
       /\ files' = IF res = "ok" /\ (impl = "fs" \/ files[path] = Absent)
                   THEN [files EXCEPT ![path] = <<>>] ELSE files
       /\ HostStep(r, "done", path, res,
                   CASE res = "ok" -> <<Response(reqs[r].id, [kind |-> "created", path |-> path], Undefined)>>
                     [] res = "refused" -> <<Response(reqs[r].id, Null, "File creation failed.")>>
                     [] OTHER -> <<Response(reqs[r].id, Null, ErrCreate)>>)
       /\ UNCHANGED <<envVars, clientVars, subVars, reqs, timers, toHost, workspaceOpen>>

\* a successful creation answers first and posts refreshFileTree afterwards
CreateDoneRespondsFirst(r, impl, res) ==
    LET path == handlers[r].arg
    IN /\ handlers[r].pc = "create"
       /\ IoPossible(impl, "create", files[path] /= Absent, res)
       /\ files' = IF res = "ok" /\ (impl = "fs" \/ files[path] = Absent)
                   THEN [files EXCEPT ![path] = <<>>] ELSE files
       /\ HostStep(r, "done", path, res,
                   CASE res = "ok" -> <<Response(reqs[r].id, [kind |-> "created", path |-> path], Undefined),
                                        RefreshFileTree>>
                     [] res = "refused" -> <<Response(reqs[r].id, Null, "File creation failed.")>>
                     [] OTHER -> <<Response(reqs[r].id, Null, ErrCreate)>>)
       /\ UNCHANGED <<envVars, clientVars, subVars, reqs, timers, toHost, workspaceOpen>>

\* createFile: writeFile of no bytes, or createFile with ignoreIfExists, has ended
CreateDone(r, impl, res) ==
    LET path == handlers[r].arg
    IN /\ handlers[r].pc = "create"
       /\ IoPossible(impl, "create", files[path] /= Absent, res)
       /\ files' = IF res = "ok" /\ (impl = "fs" \/ files[path] = Absent)
                   THEN [files EXCEPT ![path] = <<>>] ELSE files
       /\ HostStep(r, "done", path, res,
                   CASE res = "ok" -> <<RefreshFileTree,
                                        Response(reqs[r].id, [kind |-> "created", path |-> path], Undefined)>>
                     [] res = "refused" -> <<Response(reqs[r].id, Null, "File creation failed.")>>
                     [] OTHER -> <<Response(reqs[r].id, Null, ErrCreate)>>)
       /\ UNCHANGED <<envVars, clientVars, subVars, reqs, timers, toHost, workspaceOpen>>

\* ------------------------------------------------------- specifications
RequestCommands == Commands \cup {UnknownCommand}

RequestNext ==
    \/ \E c \in RequestCommands : \E p \in RequestPayloads(c) : Request(c, p)
    \/ \E r \in ReqIds : TimerFire(r)
    \/ UIReceive({})

HostNext ==
    \/ HostReceive
    \/ \E r \in ReqIds : \E res \in {"ok", "throws"} : FindFilesDone(r, res)
    \/ \E r \in ReqIds : \E readable \in BOOLEAN : ReadFileDone(r, readable)
    \/ \E r \in ReqIds : \E impl \in Impls : \E res \in IoResults : WriteFileDone(r, impl, res)
    \/ \E r \in ReqIds : \E c \in {"Delete", Undefined} : ConfirmAnswer(r, c)
    \/ \E r \in ReqIds : \E impl \in Impls : \E res \in IoResults : DeleteDone(r, impl, res)
    \/ \E r \in ReqIds : \E p \in Paths \cup {Undefined, ""} : PromptAnswer(r, p)
    \/ \E r \in ReqIds : \E impl \in Impls : \E res \in IoResults : CreateDone(r, impl, res)

Next == RequestNext \/ HostNext

Spec == Init /\ [][Next]_vars

FairSpec ==
    /\ Spec
    /\ WF_vars(HostNext)
    /\ WF_vars(\E r \in ReqIds : TimerFire(r))
    /\ WF_vars(UIReceive({}))

\* no transport: acquireVsCodeApi is not a function, the host never runs
InitNoHost == Init /\ ~attached

NoHostNext ==
    \/ \E c \in RequestCommands : \E p \in RequestPayloads(c) : Request(c, p)
    \/ \E r \in ReqIds : TimerFire(r)

SpecNoHost ==
    /\ InitNoHost
    /\ [][NoHostNext]_vars
    /\ WF_vars(\E r \in ReqIds : TimerFire(r))

\* the requests of SpecSub: deleteFile, whose handler posts refreshFileTree
SubRequestCommands == {"deleteFile"}

SubNext ==
    \/ \E c \in SubRequestCommands : \E p \in RequestPayloads(c) : Len(reqs) < MaxSubReq /\ Request(c, p)
    \/ \E r \in ReqIds : TimerFire(r)
    \/ \E t \in SUBSET Callbacks : UIReceive(t)
    \/ \E c \in SubCommands : \E cb \in Callbacks : Subscribe(c, cb)
    \/ \E i \in 1..MaxSubs : Unsubscribe(i)
    \/ HostReceive
    \/ \E r \in ReqIds : \E c \in {"Delete", Undefined} : ConfirmAnswer(r, c)
    \/ \E r \in ReqIds : \E impl \in Impls : \E res \in IoResults : DeleteDone(r, impl, res)

SpecSub == Init /\ [][SubNext]_vars

CollideCommands == {"getFileContent", "deleteFile"}

CollideNext ==
    \/ \E c \in CollideCommands : \E p \in RequestPayloads(c) : Request(c, p)
    \/ \E c \in CollideCommands : \E p \in RequestPayloads(c) : RequestCollide(c, p)
    \/ \E r \in ReqIds : TimerFire(r)
    \/ UIReceive({})
    \/ HostReceive
    \/ \E r \in ReqIds : \E readable \in BOOLEAN : ReadFileDone(r, readable)
    \/ \E r \in ReqIds : \E c \in {"Delete", Undefined} : ConfirmAnswer(r, c)
    \/ \E r \in ReqIds : \E impl \in Impls : \E res \in IoResults : DeleteDone(r, impl, res)
    \/ \E c \in SubCommands : reqs = <<>> /\ handles = <<>> /\ Subscribe(c, "cbA")

SpecCollide == Init /\ [][CollideNext]_vars

\* deleteFile requests only, with the event loops' scheduling
DeleteCommands == {"deleteFile"}

DeleteHostNext ==
    \/ HostReceive
    \/ \E r \in ReqIds : \E c \in {"Delete", Undefined} : ConfirmAnswer(r, c)
    \/ \E r \in ReqIds : \E impl \in Impls : \E res \in IoResults : DeleteDone(r, impl, res)

DeleteNext ==
    \/ \E c \in DeleteCommands : \E p \in RequestPayloads(c) : Request(c, p)
    \/ \E r \in ReqIds : TimerFire(r)
    \/ UIReceive({})
    \/ DeleteHostNext

SpecDelete ==
    /\ Init
    /\ [][DeleteNext]_vars
    /\ WF_vars(DeleteHostNext)
    /\ WF_vars(\E r \in ReqIds : TimerFire(r))
    /\ WF_vars(UIReceive({}))

\* createFile requests whose refreshFileTree reaches callbacks subscribed
\* before the first call (the effect of App.tsx runs at mount)
CreateCommands == {"createFile"}

CreateNext ==
    \/ \E c \in CreateCommands : \E p \in RequestPayloads(c) : Len(reqs) < MaxSubReq /\ Request(c, p)
    \/ \E r \in ReqIds : TimerFire(r)
    \/ \E t \in SUBSET Callbacks : UIReceive(t)
    \/ \E c \in SubCommands : \E cb \in Callbacks : reqs = <<>> /\ Subscribe(c, cb)
    \/ \E i \in 1..MaxSubs : Unsubscribe(i)
    \/ HostReceive
    \/ \E r \in ReqIds : \E p \in Paths \cup {Undefined, ""} : PromptAnswer(r, p)
    \/ \E r \in ReqIds : \E impl \in Impls : \E res \in IoResults : CreateDone(r, impl, res)

SpecCreate == Init /\ [][CreateNext]_vars

\* one updateFileContent with any text of at most MaxLen code units, then
\* getFileContent requests
CodeUnits == {110, 233, BOM, 55357, 56832}
Texts == UNION {[1..k -> CodeUnits] : k \in 0..MaxLen}

ContentNext ==
    \/ \E p \in Paths : \E t \in Texts :
          reqs = <<>> /\ Request("updateFileContent", [path |-> p, newContent |-> t])
    \/ \E p \in RequestPayloads("getFileContent") : reqs /= <<>> /\ Request("getFileContent", p)
    \/ \E r \in ReqIds : TimerFire(r)
    \/ UIReceive({})
    \/ HostReceive
    \/ \E r \in ReqIds : \E readable \in BOOLEAN : ReadFileDone(r, readable)
    \/ \E r \in ReqIds : \E impl \in Impls : \E res \in IoResults : WriteFileDone(r, impl, res)

SpecContent == Init /\ [][ContentNext]_vars

\* the envelopes a host can post as the response to an issued request: the
\* error field is absent, an empty text or a text
ResponseEnvelopes ==
    {Response(reqs[r].id, p, e) : r \in 1..Len(reqs), p \in {Null, [kind |-> "success"]},
                                  e \in {Undefined, "", ErrRead}}

\* the requests and the subscriptions of SpecInbound
InboundCommands == {"deleteFile"}
InboundSubCommands == {"response", "deleteFile"}

\* the envelopes without requestId: the command is the name of a request, the
\* name the responses carry, or refreshFileTree
NotificationEnvelopes ==
    {[command |-> c, requestId |-> NoId, payload |-> UndefinedPayload, error |-> Undefined] :
        c \in InboundCommands \cup SubCommands}

\* a 'message' event for the window: any envelope, whatever the host; the
\* listener runs before the next event is posted
PostMessage(m) ==
    /\ attached
    /\ toUI = <<>>
    /\ toUI' = <<m>>
    /\ UNCHANGED <<envVars, clientVars, subVars, reqs, timers, toHost, hostVars>>

InboundNext ==
    \/ \E c \in InboundCommands : \E p \in RequestPayloads(c) : Request(c, p)
    \/ \E r \in ReqIds : TimerFire(r)
    \/ \E m \in ResponseEnvelopes : PostMessage(m)
    \/ \E m \in NotificationEnvelopes : PostMessage(m)
    \/ \E c \in InboundSubCommands : Subscribe(c, "cbA")
    \/ \E t \in SUBSET {"cbA"} : UIReceive(t)

SpecInbound == Init /\ [][InboundNext]_vars

\* ------------------------------------------------- the UI (AppContext, CodeAssistant)
FileOps == {"getFileContent", "updateFileContent", "deleteFile", "createFile"}

\* const isVscode = typeof acquireVsCodeApi !== 'undefined'
isVscode == attached

SetCurrentView(view) ==
    /\ currentView' = view
    /\ UNCHANGED <<attached, apiCalls, fileTree, currentPanel, panels, clientVars, subVars, reqs, timers, toHost, toUI, hostVars>>

\* a call of services/api with the GitHub token
ApiCall(ops) ==
    /\ apiCalls' = apiCalls \cup ops
    /\ UNCHANGED <<attached, currentView, fileTree, currentPanel, panels, clientVars, subVars, reqs, timers, toHost, toUI, hostVars>>

\* the mount effect and refreshFileTree, in the webview of the extension
FetchVsCodeInitialData ==
    /\ isVscode
    /\ \E p \in RequestPayloads("getInitialData") : Request("getInitialData", p)

\* fetchVsCodeInitialData after its await: setCurrentView('CODE_ASSISTANT')
InitialDataLoaded(r) ==
    /\ r \in 1..Len(reqs)
    /\ reqs[r].command = "getInitialData"
    /\ outcome[r].state = "resolved"
    /\ currentView /= "CODE_ASSISTANT"
    /\ SetCurrentView("CODE_ASSISTANT")

\* in a browser: login (or a saved token), loadInitialData
LoadInitialData ==
    /\ ~isVscode
    /\ currentView = "LOGIN"
    /\ currentView' = "REPO_SELECTOR"
    /\ apiCalls' = apiCalls \cup {"connectWithGithub", "fetchRepositories"}
    /\ UNCHANGED <<attached, fileTree, currentPanel, panels, clientVars, subVars, reqs, timers,
                 toHost, toUI, hostVars>>

SelectRepo == currentView = "REPO_SELECTOR" /\ SetCurrentView("CODE_ASSISTANT")

Logout == currentView /= "LOGIN" /\ SetCurrentView("LOGIN")

\* "Cambiar Repositorio", rendered when !isVscode
BackToRepos == ~isVscode /\ currentView = "CODE_ASSISTANT" /\ SetCurrentView("REPO_SELECTOR")

\* "Desplegar Proyecto" is rendered whatever isVscode is
DeployClickAlways == currentView = "CODE_ASSISTANT" /\ SetCurrentView("DEPLOY_CONFIG")

\* "Desplegar Proyecto", rendered when !isVscode
DeployClick == ~isVscode /\ currentView = "CODE_ASSISTANT" /\ SetCurrentView("DEPLOY_CONFIG")

ProceedToFinalize == currentView = "DEPLOY_CONFIG" /\ SetCurrentView("DEPLOY_FINALIZE")

DeployBack ==
    \/ currentView = "DEPLOY_FINALIZE" /\ SetCurrentView("DEPLOY_CONFIG")
    \/ currentView = "DEPLOY_CONFIG" /\ SetCurrentView("CODE_ASSISTANT")

\* DeployFinalize: analyzeRepo reads package.json through the repository API
AnalyzeRepo == currentView = "DEPLOY_FINALIZE" /\ ApiCall({"getFileContent"})

\* handleFileSelect, handleAcceptChanges, handleDeleteFile, handleNewFile
FileOp(op, payload) ==
    /\ currentView = "CODE_ASSISTANT"
    /\ IF isVscode THEN Request(op, payload) ELSE ApiCall({op})

UINext ==
    \/ FetchVsCodeInitialData
    \/ \E r \in ReqIds : InitialDataLoaded(r)
    \/ LoadInitialData
    \/ SelectRepo
    \/ Logout
    \/ BackToRepos
    \/ DeployClick
    \/ ProceedToFinalize
    \/ DeployBack
    \/ AnalyzeRepo
    \/ \E op \in FileOps : \E p \in RequestPayloads(op) : FileOp(op, p)
    \/ UIReceive({})
    \/ HostNext

SpecUI == Init /\ [][UINext]_vars

\* ------------------------------------------- the mount effect of AppProvider
\* the callback given to subscribe: fetchVsCodeInitialData
RefreshCallback == "fetchVsCodeInitialData"

\* the effect has run and its cleanup has not
Mounted == \E i \in 1..Len(handles) : handles[i].calls = 0

\* vscodeApi.request('getInitialData', {}) as fetchVsCodeInitialData calls it
FetchRequest ==
    [command |-> "getInitialData", payload |-> [path |-> NoPath, newContent |-> NoContent],
     id |-> RequestId("getInitialData", Len(reqs) + 1)]

\* useEffect, isVscode: fetchVsCodeInitialData(), then
\* subscribe('refreshFileTree', fetchVsCodeInitialData)
Mount ==
    LET r == Len(reqs) + 1
        fresh == "refreshFileTree" \notin DOMAIN subscribers
        obj == IF fresh THEN Len(setObjs) + 1 ELSE subscribers["refreshFileTree"]
        sets1 == IF fresh THEN Append(setObjs, {}) ELSE setObjs
    IN /\ isVscode
       /\ ~Mounted
       /\ Len(reqs) < MaxReq
       /\ Len(handles) < MaxSubs
       /\ reqs' = Append(reqs, FetchRequest)
       /\ outcome' = [outcome EXCEPT ![r] = [NoOutcome EXCEPT !.state = "pending"]]
       /\ pendingRequests' = MapSet(pendingRequests, FetchRequest.id, r)
       /\ toHost' = Append(toHost, [command |-> FetchRequest.command, payload |-> FetchRequest.payload,
                                    requestId |-> FetchRequest.id, src |-> r])
       /\ subscribers' = MapSet(subscribers, "refreshFileTree", obj)
       /\ setObjs' = [sets1 EXCEPT ![obj] = @ \cup {RefreshCallback}]
       /\ handles' = Append(handles, [command |-> "refreshFileTree", callback |-> RefreshCallback,
                                      set |-> obj, calls |-> 0])
       /\ UNCHANGED <<envVars, timers, toUI, hostVars, last>>

\* the cleanup of the effect: unsubscribe()
Unmount == \E i \in 1..MaxSubs : Unsubscribe(i)

\* the next message invokes fetchVsCodeInitialData
CallbackDue ==
    /\ toUI /= <<>>
    /\ Head(toUI).requestId = NoId
    /\ RefreshCallback \in Registered(Head(toUI).command)

\* the callback only logs "Refreshing file tree from VS Code..."
UIReceiveRefreshLogsOnly ==
    /\ attached
    /\ CallbackDue
    /\ toUI' = Tail(toUI)
    /\ last' = HandleNotification(subscribers, setObjs, Head(toUI), {})
    /\ UNCHANGED <<envVars, subVars, pendingRequests, outcome, reqs, timers, toHost, hostVars>>

\* the 'message' listener for a notification fetchVsCodeInitialData is
\* subscribed to: handleMessage invokes it and it calls request
UIReceiveRefresh ==
    LET r == Len(reqs) + 1
    IN /\ attached
       /\ CallbackDue
       /\ r \in ReqIds
       /\ toUI' = Tail(toUI)
       /\ last' = HandleNotification(subscribers, setObjs, Head(toUI), {})
       /\ reqs' = Append(reqs, FetchRequest)
       /\ outcome' = [outcome EXCEPT ![r] = [NoOutcome EXCEPT !.state = "pending"]]
       /\ pendingRequests' = MapSet(pendingRequests, FetchRequest.id, r)
       /\ toHost' = Append(toHost, [command |-> FetchRequest.command, payload |-> FetchRequest.payload,
                                    requestId |-> FetchRequest.id, src |-> r])
       /\ UNCHANGED <<envVars, subVars, timers, hostVars>>

InitRefresh == Init /\ attached

RefreshNext ==
    \/ Mount
    \/ Unmount
    \/ \E r \in ReqIds : InitialDataLoaded(r)
    \/ \E p \in RequestPayloads("deleteFile") : FileOp("deleteFile", p)
    \/ UIReceiveRefresh
    \/ ~CallbackDue /\ UIReceive({})
    \/ HostReceive
    \/ \E r \in ReqIds : \E res \in {"ok", "throws"} : FindFilesDone(r, res)
    \/ \E r \in ReqIds : \E c \in {"Delete", Undefined} : ConfirmAnswer(r, c)
    \/ \E r \in ReqIds : \E impl \in Impls : \E res \in IoResults : DeleteDone(r, impl, res)

SpecRefresh == InitRefresh /\ [][RefreshNext]_vars

\* deleteFile and createFile requests of an attached webview whose callbacks
\* subscribe to refreshFileTree and unsubscribe at any moment
NotifyCommands == {"deleteFile", "createFile"}

NotifyNext ==
    \/ \E c \in NotifyCommands : \E p \in RequestPayloads(c) : Len(reqs) < MaxSubReq /\ Request(c, p)
    \/ UIReceive({})
    \/ \E cb \in Callbacks : Subscribe("refreshFileTree", cb)
    \/ \E i \in 1..MaxSubs : Unsubscribe(i)
    \/ HostReceive
    \/ \E r \in ReqIds : \E c \in {"Delete", Undefined} : ConfirmAnswer(r, c)
    \/ \E r \in ReqIds : \E impl \in Impls : \E res \in IoResults : DeleteDone(r, impl, res)
    \/ \E r \in ReqIds : \E p \in Paths \cup {Undefined, ""} : PromptAnswer(r, p)
    \/ \E r \in ReqIds : \E impl \in Impls : \E res \in IoResults : CreateDone(r, impl, res)

SpecNotify == InitRefresh /\ [][NotifyNext]_vars

\* callbacks that subscribe again while registered and unsubscribe functions
\* that are called again, with notifications posted to the webview at any moment
ResubNext ==
    \/ \E c \in SubCommands : \E cb \in Callbacks : Subscribe(c, cb)
    \/ \E c \in SubCommands : \E cb \in Callbacks : SubscribeAgain(c, cb)
    \/ \E i \in 1..MaxSubs : Unsubscribe(i)
    \/ \E i \in 1..MaxSubs : UnsubscribeAgain(i)
    \/ \E m \in NotificationEnvelopes : PostMessage(m)
    \/ \E t \in SUBSET Callbacks : UIReceive(t)

SpecResub == Init /\ [][ResubNext]_vars

\* ------------------------------------ the file tree the UI shows (AppContext)
\* the webview of the extension with a workspace open: the mount effect, the
\* deletions asked from the file list, fetchVsCodeInitialData run by every
\* refreshFileTree, and its continuation that stores the tree of the response
TreeIds == 1..MaxTreeReq

InitTree ==
    /\ attached = TRUE
    /\ pendingRequests = <<>>
    /\ subscribers = <<>>
    /\ setObjs = <<>>
    /\ handles = <<>>
    /\ reqs = <<>>
    /\ outcome = [r \in TreeIds |-> NoOutcome]
    /\ timers = {}
    /\ toHost = <<>>
    /\ toUI = <<>>
    /\ workspaceOpen = TRUE
    /\ files = [p \in Paths |-> OldContent]
    /\ handlers = [r \in TreeIds |-> NoHandler]
    /\ last = NoLast
    /\ currentView = "LOGIN"
    /\ apiCalls = {}
    /\ fileTree = {}
    /\ currentPanel = 0
    /\ panels = <<>>

\* vscodeApi.request with the transport attached
TreeRequest(command, payload) ==
    LET r == Len(reqs) + 1
        id == RequestId(command, r)
    IN /\ Len(reqs) < MaxTreeReq
       /\ reqs' = Append(reqs, [command |-> command, payload |-> payload, id |-> id])
       /\ outcome' = [outcome EXCEPT ![r] = [NoOutcome EXCEPT !.state = "pending"]]
       /\ pendingRequests' = MapSet(pendingRequests, id, r)
       /\ toHost' = Append(toHost, [command |-> command, payload |-> payload,
                                    requestId |-> id, src |-> r])

\* handleDeleteFile for a file of the list the UI shows
TreeDeleteFile(payload) ==
    /\ currentView = "CODE_ASSISTANT"
    /\ payload.path \in fileTree
    /\ TreeRequest("deleteFile", payload)
    /\ UNCHANGED <<envVars, subVars, timers, toUI, hostVars, last>>

\* the 'message' listener for refreshFileTree: the subscribed
\* fetchVsCodeInitialData calls request
TreeReceiveRefresh ==
    /\ CallbackDue
    /\ toUI' = Tail(toUI)
    /\ last' = HandleNotification(subscribers, setObjs, Head(toUI), {})
    /\ TreeRequest(FetchRequest.command, FetchRequest.payload)
    /\ UNCHANGED <<envVars, subVars, timers, hostVars>>

\* the 'message' listener for a response, and the continuation of the request
\* it settles: fetchVsCodeInitialData after its await calls setFileTree and
\* setCurrentView, or setError when the request is rejected
TreeReceiveResponse ==
    LET m == Head(toUI)
        res == HandleResponse(pendingRequests, outcome, m)
        loaded == /\ m.requestId \in DOMAIN pendingRequests
                  /\ reqs[pendingRequests[m.requestId]].command = "getInitialData"
                  /\ ~Truthy(m.error)
    IN /\ toUI /= <<>>
       /\ m.requestId /= NoId
       /\ toUI' = Tail(toUI)
       /\ pendingRequests' = res.pendingRequests
       /\ outcome' = res.outcome
       /\ last' = res.last
       /\ fileTree' = IF loaded THEN m.payload.fileTree ELSE fileTree
       /\ currentView' = IF loaded THEN "CODE_ASSISTANT" ELSE currentView
       /\ UNCHANGED <<attached, apiCalls, currentPanel, panels, subVars, reqs, timers, toHost, hostVars>>

\* getInitialData: the search started by findFiles lists the files of the
\* workspace; the promise is still pending
FindFilesScan(r) ==
    /\ handlers[r].pc = "findFiles"
    /\ handlers' = [handlers EXCEPT ![r] = [pc |-> "scanned", arg |-> NoPath, io |-> "none",
                                            sent |-> @.sent, found |-> FileTree(files)]]
    /\ UNCHANGED <<envVars, clientVars, subVars, reqs, timers, toHost, toUI, workspaceOpen, files>>

\* getInitialData: the promise of findFiles resolves with what the search
\* listed and the handler responds; when it rejects the handler ends
FindFilesReturn(r, res) ==
    /\ handlers[r].pc = "scanned"
    /\ HostStep(r, "done", NoPath, res,
                IF res = "ok"
                THEN <<Response(reqs[r].id, [kind |-> "initialData", fileTree |-> handlers[r].found], Undefined)>>
                ELSE <<>>)
    /\ UNCHANGED <<envVars, clientVars, subVars, reqs, timers, toHost, workspaceOpen, files>>

TreeNext ==
    \/ Mount
    \/ \E p \in RequestPayloads("deleteFile") : TreeDeleteFile(p)
    \/ TreeReceiveRefresh
    \/ TreeReceiveResponse
    \/ HostReceive
    \/ \E r \in TreeIds : FindFilesScan(r)
    \/ \E r \in TreeIds : \E res \in {"ok", "throws"} : FindFilesReturn(r, res)
    \/ \E r \in TreeIds : \E c \in {"Delete", Undefined} : ConfirmAnswer(r, c)
    \/ \E r \in TreeIds : \E impl \in Impls : \E res \in IoResults : DeleteDone(r, impl, res)

SpecTree == InitTree /\ [][TreeNext]_vars

\* ------------------------------------ CodeAssistantPanel: render and dispose
NewPanel == [open |-> TRUE, listener |-> TRUE, reveals |-> 0]

\* render creates a panel whatever currentPanel is
RenderAlwaysCreates ==
    /\ Len(panels) < MaxPanels
    /\ panels' = Append(panels, NewPanel)
    /\ currentPanel' = Len(panels) + 1
    /\ UNCHANGED <<attached, currentView, apiCalls, fileTree, clientVars, subVars, reqs, timers,
                   toHost, toUI, hostVars>>

\* the command son1k-go.start: reveal the current panel (reveal throws when its
\* WebviewPanel is disposed), or createWebviewPanel and the constructor, which
\* registers onDidDispose and the message listener
Render ==
    /\ IF currentPanel /= 0
       THEN /\ panels[currentPanel].open
            /\ panels[currentPanel].reveals < MaxReveals
            /\ panels' = [panels EXCEPT ![currentPanel].reveals = @ + 1]
            /\ UNCHANGED currentPanel
       ELSE /\ Len(panels) < MaxPanels
            /\ panels' = Append(panels, NewPanel)
            /\ currentPanel' = Len(panels) + 1
    /\ UNCHANGED <<attached, currentView, apiCalls, fileTree, clientVars, subVars, reqs, timers,
                   toHost, toUI, hostVars>>

\* dispose() of the current instance: currentPanel = undefined, _panel.dispose(),
\* every disposable disposed
Dispose ==
    /\ currentPanel /= 0
    /\ panels[currentPanel].open
    /\ currentPanel' = 0
    /\ panels' = [panels EXCEPT ![currentPanel].open = FALSE, ![currentPanel].listener = FALSE]
    /\ UNCHANGED <<attached, currentView, apiCalls, fileTree, clientVars, subVars, reqs, timers,
                   toHost, toUI, hostVars>>

\* the user closes the tab: the WebviewPanel is disposed, its onDidDispose
\* event has not been delivered yet
ClosePanel(p) ==
    /\ p \in 1..Len(panels)
    /\ panels[p].open
    /\ panels' = [panels EXCEPT ![p].open = FALSE]
    /\ UNCHANGED <<attached, currentView, apiCalls, fileTree, currentPanel, clientVars, subVars,
                   reqs, timers, toHost, toUI, hostVars>>

\* onDidDispose(() => this.dispose()) of a closed panel
DidDispose(p) ==
    /\ p \in 1..Len(panels)
    /\ ~panels[p].open
    /\ panels[p].listener
    /\ currentPanel' = 0
    /\ panels' = [panels EXCEPT ![p].listener = FALSE]
    /\ UNCHANGED <<attached, currentView, apiCalls, fileTree, clientVars, subVars, reqs, timers,
                   toHost, toUI, hostVars>>

PanelNext ==
    \/ Render
    \/ Dispose
    \/ \E p \in 1..MaxPanels : ClosePanel(p)
    \/ \E p \in 1..MaxPanels : DidDispose(p)

SpecPanel == Init /\ [][PanelNext]_vars

\* ------------------------------------------------------------ properties
Issued == 1..Len(reqs)
Settled(r) == outcome[r].state \in {"resolved", "rejected"}
HasEntry(r) == \E id \in DOMAIN pendingRequests : pendingRequests[id] = r
InFlightToUI(id) == \E i \in 1..Len(toUI) : toUI[i].requestId = id
Responded(r) == \E i \in 1..Len(handlers[r].sent) : handlers[r].sent[i].requestId /= NoId
\* the host's response to request r has been handed to handleMessage
Delivered(r) == Responded(r) /\ ~InFlightToUI(reqs[r].id)
Notifications(r) == {i \in 1..Len(handlers[r].sent) : handlers[r].sent[i].requestId = NoId}
\* a response envelope is taken from the channel by the 'message' listener
ResponseArrives == toUI /= <<>> /\ toUI' = Tail(toUI) /\ Head(toUI).requestId /= NoId
\* a notification envelope is taken from the channel by the 'message' listener
NotificationArrives == toUI /= <<>> /\ toUI' = Tail(toUI) /\ Head(toUI).requestId = NoId

\* C1: every call to request() eventually settles, exactly once, and its
\* entry is then no longer in the pending table.
C1_EveryRequestSettles ==
    \A r \in ReqIds :
        (outcome[r].state = "pending") ~> (Settled(r) /\ outcome[r].n = 1 /\ ~HasEntry(r))

\* C2: requests with distinct ids, responses in any order: no request is
\* settled twice, a request is settled once its response has arrived, a settled
\* request has no entry, and the table is empty when every request has settled.
C2_SettleOnceAndEmpty ==
    /\ \A r \in Issued :
        /\ outcome[r].n <= 1
        /\ Settled(r) <=> outcome[r].n = 1
        /\ Settled(r) => ~HasEntry(r) /\ reqs[r].id \notin DOMAIN pendingRequests
        /\ Delivered(r) => Settled(r)
    /\ (\A r \in Issued : Settled(r)) => pendingRequests = <<>>

C2_Witness ==
    /\ Len(reqs) >= 2
    /\ \A r \in Issued : Delivered(r) /\ Settled(r)
    /\ reqs[1].id /= reqs[2].id
    /\ pendingRequests = <<>>

\* C3: without a transport no Request envelope is sent, a pending request has
\* its timer armed, the request is rejected (never resolved) with the
\* synthesized error through its own id, and its entry is then removed.
C3_NoHostSafety ==
    ~attached =>
        /\ toHost = <<>>
        /\ \A r \in ReqIds : handlers[r].pc = "none"
        /\ \A r \in Issued :
            /\ outcome[r].state /= "resolved"
            /\ outcome[r].state = "pending" => r \in timers /\ reqs[r].id \in DOMAIN pendingRequests
            /\ outcome[r].state = "rejected" =>
                /\ outcome[r].error = MockError
                /\ outcome[r].n = 1
                /\ r \notin timers
                /\ ~HasEntry(r)

C3_NoHostRejects ==
    /\ []C3_NoHostSafety
    /\ \A r \in ReqIds :
        (~attached /\ outcome[r].state = "pending") ~> (outcome[r].state = "rejected" /\ ~HasEntry(r))

C3_Witness ==
    /\ ~attached
    /\ \E r \in Issued : outcome[r].state = "rejected" /\ last.kind = "settled" /\ last.id = reqs[r].id

\* C4: a response whose requestId has no pending entry is dropped: the handler
\* does not throw, no request is settled, no callback is invoked, and the
\* pending table and the subscriber map are unchanged.
UnmatchedArrives ==
    \/ ResponseArrives /\ Head(toUI).requestId \notin DOMAIN pendingRequests
    \/ \E r \in timers : r \notin timers' /\ reqs[r].id \notin DOMAIN pendingRequests

C4_UnmatchedDropped ==
    [][UnmatchedArrives =>
        /\ UNCHANGED <<pendingRequests, outcome, subscribers, setObjs, handles>>
        /\ last'.kind = "dropped"
        /\ last'.invoked = <<>>
        /\ ~last'.handlerThrew]_vars

C4_Witness ==
    /\ last.kind = "dropped"
    /\ "response" \in DOMAIN subscribers
    /\ \E r \in Issued : reqs[r].id = last.id /\ Settled(r)

\* C5: a notification for cmd invokes exactly once, with its payload, every
\* callback subscribed to cmd whose unsubscribe function has not been invoked,
\* and no callback whose unsubscribe function has been invoked.
Live(command) ==
    {handles[i].callback : i \in {j \in 1..Len(handles) : handles[j].command = command /\ handles[j].calls = 0}}

C6_MatchedById ==
    \A r \in Issued :
        Settled(r) =>
            IF attached
            THEN \E h \in ReqIds : \E i \in 1..Len(handlers[h].sent) :
                    LET e == handlers[h].sent[i]
                    IN /\ e.requestId = reqs[r].id
                       /\ outcome[r].state = "resolved" => ~Truthy(e.error) /\ outcome[r].value = e.payload
                       /\ outcome[r].state = "rejected" => Truthy(e.error) /\ outcome[r].error = e.error
            ELSE outcome[r].state = "rejected" /\ outcome[r].error = MockError

\* the response to the second request arrived while the first was in flight
C6_Witness ==
    /\ Len(reqs) >= 2
    /\ Settled(2)
    /\ outcome[1].state = "pending"
    /\ handlers[1].pc \notin {"none", "ignored"}

\* C7: when a callback throws, every callback registered for the command is
\* still invoked once with the payload and handleMessage does not throw.
C7_ThrowIsolated ==
    [][NotificationArrives =>
        /\ \A c \in Registered(Head(toUI).command) :
              c \in DOMAIN last'.invoked /\ last'.invoked[c] = 1
        /\ last'.payload = Head(toUI).payload
        /\ ~last'.handlerThrew]_vars

C7_Witness ==
    /\ last.kind = "notified"
    /\ last.threw /= {}
    /\ (DOMAIN last.invoked) \ last.threw /= {}

\* C8: an unsubscribe function removes its callback and no other, for its
\* command and for every other command; the callbacks left are the ones a
\* notification invokes; the map never holds an empty Set.
UnsubscribeRuns(i) == i <= Len(handles) /\ handles[i].calls = 0 /\ handles'[i].calls = 1

ReadFailed(r) ==
    reqs[r].command = "getFileContent" /\ handlers[r].pc = "done" /\ handlers[r].io = "throws"

C9_MissingFileRejects ==
    \A r \in Issued :
        ReadFailed(r) =>
            /\ handlers[r].sent = <<Response(reqs[r].id, Null, ErrRead)>>
            /\ outcome[r].state /= "resolved"
            /\ Delivered(r) => outcome[r].state = "rejected" /\ outcome[r].error = ErrRead

C9_Witness ==
    \E r \in Issued :
        /\ ReadFailed(r)
        /\ files[reqs[r].payload.path] = Absent
        /\ outcome[r].state = "rejected"

\* C10: deleteFile declined or dismissed at the dialog is answered with the
\* one response "Deletion cancelled by user.", the request is rejected with
\* it, the handler deletes nothing and posts no refreshFileTree.
Declined(r) ==
    reqs[r].command = "deleteFile" /\ handlers[r].pc = "done" /\ handlers[r].arg = Undefined

C10_DeclineRejects ==
    /\ [](\A r \in Issued :
            Declined(r) =>
                /\ handlers[r].sent = <<Response(reqs[r].id, Null, ErrDeleteCancelled)>>
                /\ Notifications(r) = {}
                /\ handlers[r].io = "none"
                /\ outcome[r].state /= "resolved"
                /\ Delivered(r) => outcome[r].state = "rejected" /\ outcome[r].error = ErrDeleteCancelled)
    /\ [][\A r \in ReqIds :
            (handlers[r].pc = "confirm" /\ handlers'[r].arg = Undefined) => files' = files]_vars

C10_Witness ==
    \E r \in Issued :
        /\ Declined(r)
        /\ files[reqs[r].payload.path] /= Absent
        /\ outcome[r].state = "rejected"

\* C11: two deleteFile requests for different paths, in flight together and both
\* confirmed at the dialog, both resolve, in whichever order the deletions end.
Confirmed(r) == reqs[r].command = "deleteFile" /\ handlers[r].arg = "Delete"
ConcurrentDeletes(r, s) ==
    /\ r \in Issued /\ s \in Issued /\ r /= s
    /\ reqs[r].command = "deleteFile" /\ reqs[s].command = "deleteFile"
    /\ reqs[r].payload.path /= reqs[s].payload.path
    /\ outcome[r].state = "pending" /\ outcome[s].state = "pending"
ResponseArrivesFor(r) == ResponseArrives /\ r \in Issued /\ Head(toUI).requestId = reqs[r].id

C11_ConfirmedDeletesResolve ==
    [][\A r \in ReqIds : \A s \in ReqIds :
        (ConcurrentDeletes(r, s) /\ Confirmed(r) /\ Confirmed(s) /\ ResponseArrivesFor(r))
            => outcome'[r].state = "resolved"]_vars

\* C11 as amended: both requests settle, in whichever order the deletions end;
\* a request whose deletion succeeded resolves with the success result, a request
\* whose deletion failed is rejected, and neither response settles the other.
C11_ConcurrentDeletesSettle ==
    /\ \A r \in ReqIds : \A s \in ReqIds :
          (ConcurrentDeletes(r, s) /\ attached) ~> (Settled(r) /\ Settled(s))
    /\ [][\A r \in ReqIds : \A s \in ReqIds :
            (ConcurrentDeletes(r, s) /\ Confirmed(r) /\ ResponseArrivesFor(r)) =>
                /\ outcome'[s] = outcome[s]
                /\ IF handlers[r].io = "ok"
                   THEN outcome'[r].state = "resolved" /\ outcome'[r].value = [kind |-> "success"]
                   ELSE outcome'[r].state = "rejected"]_vars

\* the second call has resolved while the first, also confirmed, is pending
C11_Witness ==
    /\ Len(reqs) >= 2
    /\ Confirmed(1) /\ Confirmed(2)
    /\ reqs[1].payload.path /= reqs[2].payload.path
    /\ outcome[2].state = "resolved"
    /\ outcome[1].state = "pending"
    /\ handlers[1].pc = "done" /\ handlers[1].io = "ok"

\* C12: while a deleteFile handler awaits the answer of its dialog, the
\* dispatcher takes the next Request, every other handler can go on and
\* responses can be delivered; those steps leave the suspended handler and its
\* request as they are.
AwaitingDialog(r) == r \in Issued /\ reqs[r].command = "deleteFile" /\ handlers[r].pc = "confirm"
CanProceed(s) ==
    CASE handlers[s].pc = "findFiles" -> ENABLED FindFilesDone(s, "ok")
      [] handlers[s].pc = "readFile" -> ENABLED ReadFileDone(s, TRUE)
      [] handlers[s].pc = "writeFile" -> ENABLED WriteFileDone(s, "fs", "ok")
      [] handlers[s].pc = "confirm" -> ENABLED ConfirmAnswer(s, "Delete")
      [] handlers[s].pc = "delete" -> ENABLED DeleteDone(s, "fs", "throws")
      [] handlers[s].pc = "prompt" -> ENABLED PromptAnswer(s, "a.ts")
      [] handlers[s].pc = "create" -> ENABLED CreateDone(s, "fs", "ok")
      [] OTHER -> TRUE

C12_DialogDoesNotBlock ==
    /\ [](\A r \in ReqIds :
            AwaitingDialog(r) =>
                /\ toHost /= <<>> => ENABLED HostReceive
                /\ toUI /= <<>> => ENABLED UIReceive({})
                /\ \A s \in Issued \ {r} : CanProceed(s))
    /\ [][\A r \in ReqIds :
            (AwaitingDialog(r) /\ handlers'[r].pc = "confirm") =>
                handlers'[r] = handlers[r] /\ outcome'[r] = outcome[r]]_vars

\* a request dispatched after the dialog opened has been answered and settled
C12_Witness ==
    /\ Len(reqs) >= 2
    /\ AwaitingDialog(1)
    /\ outcome[1].state = "pending"
    /\ reqs[2].command \in Commands
    /\ handlers[2].pc = "done"
    /\ Delivered(2) /\ Settled(2)

\* C13: createFile whose prompt is answered with a non-empty path P resolves
\* with {success: true, path: P}, leaves an empty file at P, and a callback
\* subscribed to refreshFileTree before the call is invoked exactly once for it.
PathSupplied(r) == reqs[r].command = "createFile" /\ handlers[r].pc = "done" /\ Truthy(handlers[r].arg)
CreatedResult(r) == [kind |-> "created", path |-> handlers[r].arg]

PromptCancelled(r) ==
    /\ reqs[r].command = "createFile" /\ workspaceOpen
    /\ handlers[r].pc = "done" /\ ~Truthy(handlers[r].arg)

C14_CancelledCreateRejects ==
    /\ [](\A r \in Issued :
            PromptCancelled(r) =>
                /\ handlers[r].sent = <<Response(reqs[r].id, Null, ErrCreateCancelled)>>
                /\ Notifications(r) = {}
                /\ handlers[r].io = "none"
                /\ outcome[r].state /= "resolved"
                /\ Delivered(r) => outcome[r].state = "rejected" /\ outcome[r].error = ErrCreateCancelled)
    /\ [][\A r \in ReqIds :
            (handlers[r].pc = "prompt" /\ handlers'[r].pc /= "prompt" /\ ~Truthy(handlers'[r].arg)) =>
                handlers'[r].pc = "done" /\ files' = files]_vars

\* a dismissed prompt and the rejection it led to
C14_Witness ==
    \E r \in Issued :
        /\ PromptCancelled(r)
        /\ handlers[r].arg = Undefined
        /\ outcome[r].state = "rejected"
        /\ outcome[r].error = ErrCreateCancelled

\* C15: deleteFile(path) confirmed at the dialog deletes the file, posts
\* refreshFileTree and the request resolves with the success result.
DeleteEnded(r) == Confirmed(r) /\ handlers[r].pc = "done"

C15_ConfirmedDeleteSucceeds ==
    \A r \in Issued :
        (DeleteEnded(r) /\ Delivered(r)) =>
            /\ outcome[r].state = "resolved" /\ outcome[r].value = [kind |-> "success"]
            /\ Cardinality(Notifications(r)) = 1

\* C15 as amended: when the deletion succeeds the file is removed, the handler
\* posts one refreshFileTree and then the response {success: true}, and the
\* request resolves with it; when the deletion fails no file is removed, no
\* refreshFileTree is posted and the request is rejected.
C15_DeleteSucceeds ==
    /\ [](\A r \in Issued :
            DeleteEnded(r) =>
                IF handlers[r].io = "ok"
                THEN /\ handlers[r].sent = <<RefreshFileTree, Response(reqs[r].id, [kind |-> "success"], Undefined)>>
                     /\ outcome[r].state /= "rejected"
                     /\ Delivered(r) => outcome[r].state = "resolved" /\ outcome[r].value = [kind |-> "success"]
                ELSE /\ Notifications(r) = {}
                     /\ outcome[r].state /= "resolved"
                     /\ Delivered(r) => outcome[r].state = "rejected")
    /\ [][\A r \in ReqIds :
            (handlers[r].pc = "delete" /\ handlers'[r].pc = "done") =>
                LET path == reqs[r].payload.path
                IN IF handlers'[r].io = "ok"
                   THEN /\ files[path] /= Absent /\ files'[path] = Absent
                        /\ \A q \in Paths \ {path} : files'[q] = files[q]
                   ELSE files' = files]_vars

\* the file is gone, the notification and the response have been delivered
C15_Witness ==
    \E r \in Issued :
        /\ DeleteEnded(r) /\ handlers[r].io = "ok"
        /\ files[reqs[r].payload.path] = Absent
        /\ Delivered(r)
        /\ outcome[r].state = "resolved"

\* C16: with no workspace open every received Request is answered at once with
\* one error response, "No workspace folder is open. ..." for getInitialData
\* and "No workspace is open." for every other command; no file operation,
\* dialog or prompt is started, no file changes, and the request is rejected
\* with that text.
NoWorkspaceError(command) ==
    IF command = "getInitialData" THEN ErrNoWorkspaceFolder ELSE ErrNoWorkspace

C16_NoWorkspaceAnswered ==
    /\ [](~workspaceOpen =>
            \A r \in Issued :
                /\ handlers[r].pc \in {"none", "done"}
                /\ handlers[r].pc = "done" =>
                    /\ handlers[r].sent = <<Response(reqs[r].id, Null, NoWorkspaceError(reqs[r].command))>>
                    /\ handlers[r].io = "none" /\ handlers[r].arg = NoPath
                    /\ outcome[r].state /= "resolved"
                    /\ Delivered(r) => /\ outcome[r].state = "rejected"
                                       /\ outcome[r].error = NoWorkspaceError(reqs[r].command))
    /\ [][~workspaceOpen => files' = files]_vars

\* getInitialData and a file command, both rejected with their own text
C16_Witness ==
    /\ attached /\ ~workspaceOpen
    /\ \E r \in Issued : /\ reqs[r].command = "getInitialData"
                          /\ outcome[r].state = "rejected" /\ outcome[r].error = ErrNoWorkspaceFolder
    /\ \E r \in Issued : /\ reqs[r].command \in PathCommands \cup {"createFile"}
                          /\ outcome[r].state = "rejected" /\ outcome[r].error = ErrNoWorkspace

\* C17: a Request whose command is not in the catalog is ignored by the
\* dispatcher, with a workspace open or not: nothing is ever posted for it.
Received(r) == r \in Issued /\ handlers[r].pc /= "none"

C17_UnknownIgnored ==
    \A r \in Issued :
        (reqs[r].command \notin Commands /\ Received(r)) => handlers[r].sent = <<>>

\* C17 as amended: with a workspace open the Request is ignored: the handler
\* ends at once, posts nothing then or later, and the request stays pending
\* with its entry; with no workspace open it is answered with the
\* "No workspace is open." error, as a catalog command is.
C17_UnknownIgnoredInWorkspace ==
    /\ [](\A r \in Issued :
            (reqs[r].command \notin Commands /\ Received(r)) =>
                IF workspaceOpen
                THEN /\ handlers[r].pc = "ignored"
                     /\ handlers[r].sent = <<>>
                     /\ ~InFlightToUI(reqs[r].id)
                     /\ outcome[r].state = "pending" /\ HasEntry(r)
                ELSE /\ handlers[r].pc = "done"
                     /\ handlers[r].sent = <<Response(reqs[r].id, Null, ErrNoWorkspace)>>)
    /\ [][\A r \in ReqIds : handlers[r].pc = "ignored" => handlers'[r] = handlers[r]]_vars

\* the Request was taken by the dispatcher and nothing is left to happen for it
C17_Witness ==
    \E r \in Issued :
        /\ reqs[r].command = UnknownCommand
        /\ workspaceOpen
        /\ handlers[r].pc = "ignored"
        /\ toHost = <<>> /\ toUI = <<>>
        /\ outcome[r].state = "pending"

\* C18: once updateFileContent(path, newContent) has resolved, and no other
\* request has written to path, a read of path by getFileContent is answered
\* with content equal to newContent, whatever the file held before.
WroteTo(t, path) ==
    /\ handlers[t].pc = "done" /\ handlers[t].io = "ok"
    /\ \/ reqs[t].command \in {"updateFileContent", "deleteFile"} /\ reqs[t].payload.path = path
       \/ reqs[t].command = "createFile" /\ handlers[t].arg = path
UpdateResolved(r) ==
    /\ r \in Issued /\ reqs[r].command = "updateFileContent" /\ outcome[r].state = "resolved"
    /\ \A t \in Issued \ {r} : ~WroteTo(t, reqs[r].payload.path)
ReadEnds(s) ==
    /\ s \in Issued /\ reqs[s].command = "getFileContent"
    /\ handlers[s].pc = "readFile" /\ handlers'[s].pc = "done" /\ handlers'[s].io = "ok"

C18_ReadsBackWritten ==
    [][\A r \in ReqIds : \A s \in ReqIds :
        (UpdateResolved(r) /\ ReadEnds(s) /\ reqs[s].payload.path = reqs[r].payload.path) =>
            handlers'[s].sent =
                <<Response(reqs[s].id, [kind |-> "fileContent", content |-> reqs[r].payload.newContent], Undefined)>>]_vars

\* C19: every failure of a handler (no workspace, a file operation that throws
\* or is refused, a dialog or prompt cancelled) is answered with a response
\* whose error is a non-empty text; the request is rejected with exactly that
\* text and is never resolved.
HostFailed(r) ==
    /\ r \in Issued /\ reqs[r].command \in Commands
    /\ handlers[r].pc = "done"
    /\ \/ ~workspaceOpen
       \/ handlers[r].io \in {"throws", "refused"}
       \/ Declined(r)
       \/ PromptCancelled(r)

C19_FailuresReject ==
    \A r \in Issued :
        HostFailed(r) =>
            /\ Len(handlers[r].sent) = 1
            /\ handlers[r].sent[1].requestId = reqs[r].id
            /\ Truthy(handlers[r].sent[1].error)
            /\ outcome[r].state /= "resolved"
            /\ Delivered(r) => /\ outcome[r].state = "rejected"
                               /\ outcome[r].error = handlers[r].sent[1].error

\* C20: with a host attached every file read, write, delete and create the UI
\* starts is a bridge request posted to the host, and the UI calls no
\* repository-API operation.
C20_BridgeOnly ==
    /\ [](isVscode => apiCalls = {})
    /\ [](isVscode => currentView \in {"LOGIN", "CODE_ASSISTANT"})
    /\ [][(isVscode /\ reqs' /= reqs) =>
            /\ reqs' = Append(reqs, reqs'[Len(reqs')])
            /\ reqs'[Len(reqs')].command \in FileOps \cup {"getInitialData"}
            /\ Len(toHost') = Len(toHost) + 1
            /\ toHost'[Len(toHost')].command = reqs'[Len(reqs')].command
            /\ apiCalls' = apiCalls]_vars

\* a file request of the CodeAssistant screen has been answered
C20_Witness ==
    /\ isVscode
    /\ currentView = "CODE_ASSISTANT"
    /\ \E r \in Issued : reqs[r].command \in FileOps /\ Settled(r)
    /\ apiCalls = {}

\* ----------------------------------- subscriptions made after a notification
\* the notifications the host has posted, and those handleMessage has taken
Emitted == {r \in ReqIds : Notifications(r) /= {}}
NotificationsInFlight == {i \in 1..Len(toUI) : toUI[i].requestId = NoId}
Posted == Cardinality({<<r, i>> \in ReqIds \X (1..2) : i \in Notifications(r)})
Consumed == Posted - Cardinality(NotificationsInFlight)

\* subscribe; the closure remembers how many notifications the host had posted
\* when it was made
SubscribeMarked(command, callback) ==
    LET fresh == command \notin DOMAIN subscribers
        obj == IF fresh THEN Len(setObjs) + 1 ELSE subscribers[command]
        sets1 == IF fresh THEN Append(setObjs, {}) ELSE setObjs
    IN /\ callback \notin Registered(command)
       /\ Len(handles) < MaxSubs
       /\ subscribers' = MapSet(subscribers, command, obj)
       /\ setObjs' = [sets1 EXCEPT ![obj] = @ \cup {callback}]
       /\ handles' = Append(handles, [command |-> command, callback |-> callback,
                                      set |-> obj, calls |-> 0, missed |-> Posted])
       /\ UNCHANGED <<envVars, clientVars, reqs, timers, toHost, toUI, hostVars>>

LateNext ==
    \/ \E p \in RequestPayloads("deleteFile") : Len(reqs) < MaxSubReq /\ Request("deleteFile", p)
    \/ \E r \in ReqIds : TimerFire(r)
    \/ UIReceive({})
    \/ \E cb \in Callbacks : SubscribeMarked("refreshFileTree", cb)
    \/ \E i \in 1..MaxSubs : Unsubscribe(i)
    \/ HostReceive
    \/ \E r \in ReqIds : \E c \in {"Delete", Undefined} : ConfirmAnswer(r, c)
    \/ \E r \in ReqIds : \E impl \in Impls : \E res \in IoResults : DeleteDone(r, impl, res)

SpecLate == Init /\ [][LateNext]_vars

\* C21: a notification is delivered at most once per emission: each subscriber
\* is invoked at most once for it, the host posts no acknowledged or retried
\* copy, and a notification emitted while no subscriber is registered is never
\* delivered later. As stated, for its last part: a notification the host
\* posted before the first subscription was made (so while nothing was
\* registered) invokes no callback when it arrives.
PostedBeforeFirstSubscribe == handles = <<>> \/ Consumed + 1 <= handles[1].missed

SettledUnder(id) == \E r \in Issued : reqs[r].id = id /\ Settled(r)
PendingUnder(id) == \E r \in Issued : reqs[r].id = id /\ outcome[r].state = "pending" /\ HasEntry(r)

C22_SecondResponseDropped ==
    /\ [][(ResponseArrives /\ SettledUnder(Head(toUI).requestId) /\ ~PendingUnder(Head(toUI).requestId)) =>
            /\ last'.kind = "dropped"
            /\ UNCHANGED <<pendingRequests, outcome>>]_vars
    /\ [][\A r \in ReqIds : Settled(r) => outcome'[r] = outcome[r]]_vars
    /\ [](\A r \in ReqIds : outcome[r].n <= 1)

\* two answered requests carried one id: the first response settled the
\* request that held the entry, the second was dropped
C22_Witness ==
    /\ Len(reqs) >= 2
    /\ reqs[1].id = reqs[2].id
    /\ handlers[1].pc = "done" /\ handlers[2].pc = "done"
    /\ Settled(2) /\ outcome[2].n = 1
    /\ last.kind = "dropped" /\ last.id = reqs[2].id
    /\ toUI = <<>>

\* C23: a notification for a command nothing is subscribed to is a silent
\* no-op: handleMessage does not throw, no callback is invoked (not even a
\* callback subscribed to another command), and the pending table, the
\* promises and the subscriber map are left as they were.
C23_UnsubscribedNoOp ==
    [][(NotificationArrives /\ Registered(Head(toUI).command) = {}) =>
        /\ last'.kind = "notified"
        /\ last'.invoked = <<>>
        /\ last'.threw = {}
        /\ ~last'.handlerThrew
        /\ UNCHANGED <<pendingRequests, outcome, subscribers, setObjs, handles>>]_vars

\* refreshFileTree arrived while a request was pending and the only callback
\* was subscribed to another command
C23_Witness ==
    /\ last.kind = "notified" /\ last.command = "refreshFileTree"
    /\ last.invoked = <<>>
    /\ "refreshFileTree" \notin DOMAIN subscribers
    /\ "response" \in DOMAIN subscribers
    /\ pendingRequests /= <<>>

\* C24: for a Request naming a catalog command the dispatcher sends exactly one
\* Response carrying its requestId on every path through the handler: never
\* more than one, never one with another id, and one once the handler has ended.
Responses(r) == {i \in 1..Len(handlers[r].sent) : handlers[r].sent[i].requestId /= NoId}

C24_ExactlyOneResponse ==
    \A r \in Issued :
        reqs[r].command \in Commands =>
            /\ Cardinality(Responses(r)) <= 1
            /\ \A i \in Responses(r) : handlers[r].sent[i].requestId = reqs[r].id
            /\ handlers[r].pc = "done" => Cardinality(Responses(r)) = 1

\* C25: with a transport attached no timer is armed; a pending request is
\* settled only by the arrival of a response that carries its requestId: any
\* other step (a notification, a response to another request, a host step)
\* leaves it pending with its entry; a request the host has finished with
\* without answering stays pending, with its entry, from then on.
NeverAnswered(r) ==
    /\ r \in Issued /\ handlers[r].pc \in {"done", "ignored"} /\ Responses(r) = {}
    /\ outcome[r].state = "pending" /\ HasEntry(r)

C25_NoTimeout ==
    /\ [](attached => timers = {})
    /\ [][\A r \in ReqIds :
            (attached /\ r \in Issued /\ outcome[r].state = "pending") =>
                IF ResponseArrivesFor(r)
                THEN Settled(r)' /\ ~HasEntry(r)'
                ELSE outcome'[r] = outcome[r] /\ HasEntry(r)']_vars
    /\ [][\A r \in ReqIds : (attached /\ NeverAnswered(r)) => NeverAnswered(r)']_vars

\* the host ended the handler of the first request without a response; the
\* second request was answered, its notification and response have arrived
C25_Witness ==
    /\ attached /\ Len(reqs) >= 2
    /\ NeverAnswered(1)
    /\ reqs[2].command = "deleteFile" /\ Notifications(2) /= {}
    /\ Delivered(2) /\ Settled(2)
    /\ toHost = <<>> /\ toUI = <<>> /\ timers = {}

\* C26: between two steps of the webview's event loop the pending table holds
\* exactly the ids of the requests that were issued and have not settled, each
\* mapped to its own request; the step that calls request inserts the entry,
\* the step that resolves or rejects a request removes it.
Unsettled == {r \in Issued : outcome[r].state = "pending"}

C26_TableIsUnsettled ==
    /\ [](/\ DOMAIN pendingRequests = {reqs[r].id : r \in Unsettled}
          /\ \A id \in DOMAIN pendingRequests : reqs[pendingRequests[id]].id = id)
    /\ [][\A r \in ReqIds :
            /\ (outcome[r].state = "unissued" /\ outcome'[r].state /= "unissued") =>
                  /\ outcome'[r].state = "pending"
                  /\ reqs'[r].id \notin DOMAIN pendingRequests
                  /\ reqs'[r].id \in DOMAIN pendingRequests' /\ pendingRequests'[reqs'[r].id] = r
            /\ (outcome[r].state = "pending" /\ outcome'[r].state /= "pending") =>
                  /\ reqs[r].id \in DOMAIN pendingRequests
                  /\ pendingRequests' = MapDelete(pendingRequests, reqs[r].id)]_vars

\* the first request has just been settled, the second is still pending
C26_Witness ==
    /\ Len(reqs) = 2
    /\ last.kind = "settled" /\ last.req = 1
    /\ Settled(1) /\ outcome[2].state = "pending"
    /\ DOMAIN pendingRequests = {reqs[2].id}

\* C27: a response whose requestId has a pending entry rejects the request
\* with the text of the error field if and only if the envelope has an error
\* field, and otherwise resolves it with the payload; the entry is deleted in
\* both cases.
MatchedArrives == ResponseArrives /\ Head(toUI).requestId \in DOMAIN pendingRequests

TimerRuns == \E r \in timers : r \notin timers'

C28_DiscriminatesOnRequestId ==
    /\ [][(ResponseArrives \/ TimerRuns) =>
            /\ last'.kind \in {"settled", "dropped"}
            /\ last'.invoked = <<>>]_vars
    /\ [][NotificationArrives =>
            /\ last'.kind = "notified"
            /\ DOMAIN last'.invoked = Registered(Head(toUI).command)
            /\ UNCHANGED <<pendingRequests, outcome>>]_vars

\* a notification named deleteFile has invoked the callback subscribed under
\* that name while a deleteFile request stays pending; another request was
\* settled by a response while a callback was subscribed under 'response'
C28_Witness ==
    /\ last.kind = "notified" /\ last.command = "deleteFile"
    /\ DOMAIN last.invoked = {"cbA"}
    /\ \E r \in Unsettled : reqs[r].command = "deleteFile" /\ HasEntry(r)
    /\ \E r \in Issued : Settled(r)
    /\ Len(handles) = 2 /\ handles[1].command = "response"

\* C29: when a request draws the id of a request that is still pending, its
\* entry replaces the first one without any sign; a response (or timer)
\* carrying that id settles the request that holds the entry, the second, and
\* no later message settles the first, which stays pending.
IssuedNow(s) == outcome[s].state = "unissued" /\ outcome'[s].state = "pending"
Overwritten(r) == r \in Issued /\ outcome[r].state = "pending" /\ ~HasEntry(r)

C29_SecondOverwritesFirst ==
    /\ [][\A r \in ReqIds : \A s \in ReqIds :
            (r \in Unsettled /\ HasEntry(r) /\ IssuedNow(s) /\ reqs'[s].id = reqs[r].id) =>
                /\ pendingRequests' = [pendingRequests EXCEPT ![reqs[r].id] = s]
                /\ Overwritten(r)'
                /\ last' = last]_vars
    /\ [][\A r \in ReqIds : Overwritten(r) => Overwritten(r)']_vars
    /\ [][\A r \in ReqIds :
            (outcome[r].state = "pending" /\ outcome'[r] /= outcome[r]) =>
                /\ HasEntry(r)
                /\ \/ ResponseArrivesFor(r)
                   \/ \E t \in timers : t \notin timers' /\ reqs[t].id = reqs[r].id]_vars

\* the response to the first request has settled the second, which the host
\* has not answered yet; the first stays pending without an entry
C29_Witness ==
    /\ attached /\ Len(reqs) >= 2
    /\ reqs[1].id = reqs[2].id
    /\ Responded(1) /\ ~Responded(2)
    /\ last.kind = "settled" /\ last.req = 2
    /\ Settled(2) /\ Overwritten(1)

\* C30: while the UI is mounted in the webview of the extension, every
\* refreshFileTree notification it receives makes it post one new getInitialData
\* request, with an empty payload, and changes nothing else of the UI or of the
\* files (the tree is fetched again, not patched); once the cleanup of the
\* effect has run, a notification posts no request.
RefreshArrives == NotificationArrives /\ Head(toUI).command = "refreshFileTree"

C30_RefreshRefetches ==
    /\ [][(RefreshArrives /\ isVscode /\ Mounted) =>
            /\ last'.invoked = [c \in {RefreshCallback} |-> 1]
            /\ reqs' = Append(reqs, FetchRequest)
            /\ outcome'[Len(reqs')].state = "pending"
            /\ FetchRequest.id \in DOMAIN pendingRequests'
            /\ Len(toHost') = Len(toHost) + 1
            /\ toHost'[Len(toHost')].command = "getInitialData"
            /\ toHost'[Len(toHost')].requestId = FetchRequest.id
            /\ UNCHANGED <<currentView, apiCalls, files, subscribers, setObjs>>]_vars
    /\ [][(RefreshArrives /\ ~Mounted) =>
            /\ last'.invoked = <<>>
            /\ UNCHANGED <<reqs, toHost, pendingRequests, outcome, currentView, apiCalls>>]_vars

\* the refreshFileTree of a deletion has made the mounted UI post its second
\* getInitialData
C30_Witness ==
    /\ Mounted
    /\ last.kind = "notified" /\ last.command = "refreshFileTree"
    /\ DOMAIN last.invoked = {RefreshCallback}
    /\ Len(reqs) = 3
    /\ reqs[1].command = "getInitialData" /\ reqs[2].command = "deleteFile"
    /\ reqs[3] = [FetchRequest EXCEPT !.id = RequestId("getInitialData", 3)]
    /\ outcome[3].state = "pending"
    /\ toHost /= <<>>

\* ------------------------------------------ refreshFileTree and its request
FileChanging(r) == r \in Issued /\ reqs[r].command \in {"deleteFile", "createFile"}
SuccessResponses(r) == {i \in Responses(r) : ~Truthy(handlers[r].sent[i].error)}
ErrorResponses(r) == {i \in Responses(r) : Truthy(handlers[r].sent[i].error)}
PostsRefresh(r) == Notifications(r) = {} /\ Notifications(r)' /= {}

\* C31: the host posts refreshFileTree for a deleteFile or createFile request
\* only when the file operation succeeded, and posts it just before the
\* request's success response; a request answered with an error has no
\* notification; the file is deleted, or exists, when the notification is
\* posted; the channel keeps the order, so the response of such a request
\* arrives right after its notification has invoked the subscribers, while the
\* request is still pending, and resolves it.
C31_RefreshBeforeSuccess ==
    /\ [](\A r \in ReqIds :
            /\ Notifications(r) /= {} =>
                /\ FileChanging(r)
                /\ handlers[r].pc = "done" /\ handlers[r].io = "ok"
                /\ Notifications(r) = {1} /\ SuccessResponses(r) = {2}
                /\ Len(handlers[r].sent) = 2
            /\ ErrorResponses(r) /= {} => Notifications(r) = {}
            /\ (FileChanging(r) /\ SuccessResponses(r) /= {}) => Notifications(r) /= {})
    /\ [](\A j \in 1..Len(toUI) :
            toUI[j].requestId = NoId =>
                /\ toUI[j] = RefreshFileTree
                /\ j < Len(toUI)
                /\ \E r \in Issued : /\ toUI[j + 1].requestId = reqs[r].id
                                     /\ ~Truthy(toUI[j + 1].error)
                                     /\ outcome[r].state = "pending")
    /\ [][\A r \in ReqIds : PostsRefresh(r) =>
            IF reqs[r].command = "deleteFile"
            THEN files[reqs[r].payload.path] /= Absent /\ files'[reqs[r].payload.path] = Absent
            ELSE files'[handlers'[r].arg] /= Absent]_vars
    /\ [][NotificationArrives =>
            /\ DOMAIN last'.invoked = Registered("refreshFileTree")
            /\ outcome' = outcome]_vars
    /\ [][\A r \in ReqIds : (ResponseArrivesFor(r) /\ Notifications(r) /= {}) =>
            /\ last.kind = "notified" /\ last.command = "refreshFileTree"
            /\ outcome[r].state = "pending" /\ outcome'[r].state = "resolved"]_vars

\* the notification of a successful createFile has invoked a subscriber and
\* the success response of the request, still pending, is next in the channel
C31_Witness ==
    /\ last.kind = "notified" /\ last.invoked /= <<>>
    /\ toUI /= <<>>
    /\ \E r \in Issued :
        /\ reqs[r].command = "createFile"
        /\ Head(toUI).requestId = reqs[r].id
        /\ Notifications(r) = {1} /\ SuccessResponses(r) = {2}
        /\ outcome[r].state = "pending"

\* ---------------------------------------------- unsubscribe called again
\* a step that neither subscribes nor calls an unsubscribe function for the
\* first time
NoFirstCall == handles' = handles

\* C32: calling an unsubscribe function a second time is a no-op: the callbacks
\* registered for every command are the same after the call, so a callback that
\* subscribed after the first call emptied the set is still registered and is
\* invoked by the later notifications for the command.
C32_SecondUnsubscribeNoOp ==
    [][NoFirstCall => \A c \in SubCommands : Registered(c)' = Registered(c)]_vars

\* --------------------------------------------- one callback subscribed twice
\* the call of subscribe that made the last handle
Subscribes(c, cb) ==
    /\ Len(handles') = Len(handles) + 1
    /\ handles'[Len(handles')].command = c /\ handles'[Len(handles')].callback = cb
\* two unsubscribe functions, neither called yet, of one callback registered in
\* the Set of the command
Twins(i, j) ==
    /\ i /= j
    /\ handles[i].command = handles[j].command /\ handles[i].callback = handles[j].callback
    /\ handles[i].set = handles[j].set
    /\ handles[i].calls = 0 /\ handles[j].calls = 0
    /\ handles[i].command \in DOMAIN subscribers /\ subscribers[handles[i].command] = handles[i].set
    /\ handles[i].callback \in Registered(handles[i].command)

\* C33: subscribing a callback that is registered for the command changes neither
\* the map nor the Set, and the new unsubscribe function is bound to the same
\* Set; a notification invokes each registered callback exactly once; calling
\* either of the two unsubscribe functions removes the callback from the
\* command, the other function not having been called.
C33_TwiceRegistersOnce ==
    /\ [][\A c \in SubCommands : \A cb \in Callbacks :
            (cb \in Registered(c) /\ Subscribes(c, cb)) =>
                /\ subscribers' = subscribers /\ setObjs' = setObjs
                /\ handles'[Len(handles')].set = subscribers[c]
                /\ \E j \in 1..Len(handles) :
                      /\ handles[j].command = c /\ handles[j].callback = cb
                      /\ handles[j].set = subscribers[c] /\ handles[j].calls = 0]_vars
    /\ [][NotificationArrives =>
            /\ DOMAIN last'.invoked = Registered(Head(toUI).command)
            /\ \A cb \in DOMAIN last'.invoked : last'.invoked[cb] = 1]_vars
    /\ [][\A i, j \in 1..Len(handles) :
            (Twins(i, j) /\ UnsubscribeRuns(i)) =>
                /\ handles[i].callback \notin Registered(handles[i].command)'
                /\ handles'[j].calls = 0]_vars

\* a callback was subscribed twice, one of its unsubscribe functions has been
\* called and the other has not; a notification for the command invoked nothing
C33_Witness ==
    /\ \E i, j \in 1..Len(handles) :
        /\ i /= j
        /\ handles[i].command = handles[j].command /\ handles[i].callback = handles[j].callback
        /\ handles[i].set = handles[j].set
        /\ handles[i].calls = 1 /\ handles[j].calls = 0
        /\ Registered(handles[i].command) = {}
        /\ last.kind = "notified" /\ last.command = handles[i].command /\ last.invoked = <<>>
    /\ toUI = <<>>

\* ------------------------------------------------- several getInitialData
Fetches == {r \in Issued : reqs[r].command = "getInitialData"}
LatestFetch == CHOOSE r \in Fetches : \A s \in Fetches : s <= r

\* C34: once every getInitialData request has settled, the file tree the UI
\* holds is the one returned for the most recently issued of them.
C34_LatestTreeShown ==
    (/\ Fetches /= {}
     /\ \A r \in Fetches : Settled(r)
     /\ outcome[LatestFetch].state = "resolved")
        => fileTree = outcome[LatestFetch].value.fileTree

\* ----------------------------------------------------------- one panel
LivePanels == {p \in 1..Len(panels) : panels[p].open}
Listening == {p \in 1..Len(panels) : panels[p].listener}

\* C35: at most one panel and one message listener exist at any time, and they
\* belong to currentPanel; no panel is created while currentPanel is set; a
\* step that clears currentPanel leaves its panel disposed and its listener
\* released; a panel is created only when currentPanel is undefined, one at a
\* time, and becomes currentPanel with its listener registered.
C35_AtMostOnePanel ==
    /\ [](/\ Cardinality(LivePanels) <= 1
          /\ Cardinality(Listening) <= 1
          /\ LivePanels \subseteq Listening
          /\ Listening = IF currentPanel = 0 THEN {} ELSE {currentPanel})
    /\ [][currentPanel /= 0 => Len(panels') = Len(panels)]_vars
    /\ [][(currentPanel /= 0 /\ currentPanel' = 0) =>
            /\ ~panels'[currentPanel].open /\ ~panels'[currentPanel].listener
            /\ LivePanels' = {} /\ Listening' = {}]_vars
    /\ [][Len(panels') /= Len(panels) =>
            /\ currentPanel = 0 /\ LivePanels = {} /\ Listening = {}
            /\ Len(panels') = Len(panels) + 1
            /\ currentPanel' = Len(panels')
            /\ LivePanels' = {currentPanel'} /\ Listening' = {currentPanel'}]_vars

\* the first panel was revealed by a render and then disposed; the next render
\* created the second panel, the only one that exists
C35_Witness ==
    /\ Len(panels) = 2
    /\ panels[1].reveals >= 1 /\ ~panels[1].open /\ ~panels[1].listener
    /\ currentPanel = 2
    /\ LivePanels = {2} /\ Listening = {2}

====
